---- MODULE Spec2Model ----
(***************************************************************************)
(* A model of tumblr_backup.py: the pagination loop of                     *)
(* TumblrBackup.backup with ApiParser.apiparse as its post source, the     *)
(* ThreadPool work queue with its worker threads, and the main loop over   *)
(* the accounts.                                                           *)
(*                                                                         *)
(*   Spec      one account run of TumblrBackup.backup (controller thread)  *)
(*   SpecPool  one ThreadPool: controller calls and the worker threads     *)
(*   SpecMain  the loop over the accounts in __main__                      *)
(***************************************************************************)
EXTENDS Integers, Sequences, FiniteSets, TLC

\* ------------------------------------------------------------------------
\* Bounds of the model
\* ------------------------------------------------------------------------
\* post identities are 1..MaxId
MaxId == 3
\* page size requested by the loop; the program's value is scaled down
MAX_POSTS == 2
\* a live source answers at most this many non-empty pages per run
MaxPages == 2
\* a live source answers 429 at most this many times per apiparse call
MaxThrottle == 2
\* at most this many options differ from their defaults in one run
MaxOpts == 1
\* session.get fails on lost connectivity at most this many times per apiparse call
MaxOffline == 1
\* number of posts in a saved archive
MaxArchive == 4
\* number of post files the index is built over
MaxFiles == 3
\* largest value of options.posts_per_page
MaxPerPage == 2

\* Python's None, for values that are otherwise natural numbers
None == 0 - 1

Ids == 1..MaxId

\* options.p_start and options.p_stop when a period is given
p_start == 2
p_stop == p_start + 2

\* timestamps: the period window, one value below it and one above it
Times == (p_start - 1)..(p_stop + 1)

Max(S) == CHOOSE x \in S : \A y \in S : y <= x

\* ------------------------------------------------------------------------
\* State of one account run (TumblrBackup.backup)
\* ------------------------------------------------------------------------
VARIABLES
    opt,                  \* the command line options
    pc,                   \* position of the controller thread in backup()
    apiArgs,              \* arguments of the running apiparse call
    dashboard_only_blog,  \* ApiParser.dashboard_only_blog: "None", "True", "False"
    sleep_dur,            \* apiparse: the next back-off duration
    requests,             \* apiparse: requests sent by the current call, with the status answered;
                          \* after the return, the request answered last
    sleeps,               \* apiparse: sleeps done by the current call
    net,                  \* _get_resp: exceptions of session.get during the current call
    resp,                 \* the value returned by the last apiparse call
    i,                    \* offset cursor of the loop
    before,               \* 'before' cursor of the loop
    ident_max,            \* highest key already saved (incremental mode)
    post_count,           \* TumblrBackup.post_count
    failed_blogs,         \* TumblrBackup.failed_blogs
    total_count,          \* TumblrBackup.total_count
    files,                \* identities with a post file on disk
    k,                    \* _backup: posts of sorted_posts examined so far
    post,                 \* _backup: the post of the current iteration
    oldest_date,          \* _backup: oldest_date
    min_date,             \* History: the smallest date among the posts read of the page
    added,                \* identities passed to ThreadPool.add_work so far
    addedTwice,           \* some identity was passed to add_work more than once
    indexed,              \* History: the post files the index of this run was built over
    npages,               \* non-empty pages answered by the source
    poolState,            \* "none", "running", "cancelled", "waited"
    exc,                  \* the exception that left backup(), or "none"
    stop,                 \* why the pagination loop ended, or "none"
    full                  \* the last add_work raised queue.Full

cvars == <<opt, pc, apiArgs, dashboard_only_blog, sleep_dur, requests, sleeps, net,
           resp, i, before, ident_max, post_count, failed_blogs,
           total_count, files, k, post, oldest_date, min_date, added,
           addedTwice, indexed, npages, poolState, exc, stop, full>>

\* ------------------------------------------------------------------------
\* State of one ThreadPool
\* ------------------------------------------------------------------------
VARIABLES
    queue,            \* ThreadPool.queue: the jobs waiting, oldest first
    unfinished_tasks, \* Queue.unfinished_tasks
    quit,             \* ThreadPool.quit is set
    abort,            \* ThreadPool.abort is set
    wpc,              \* per worker thread, its position in handler()
    work,             \* per worker thread, the job it has dequeued (0: none)
    raised,           \* per worker thread, the body of its job has raised
    ctl,              \* position of the controller thread using the pool
    nextJob,          \* the job the next add_work submits
    lastAdd,          \* outcome of the last add_work: "none", "ok", "full"
    executed,         \* per job, the number of times its body was run
    completed,        \* per job, the number of task_done calls for it
    atCancel          \* the jobs that were in the queue when cancel() was called

pvars == <<queue, unfinished_tasks, quit, abort, wpc, work, raised, ctl, nextJob,
           lastAdd, executed, completed, atCancel>>

\* ------------------------------------------------------------------------
\* State of the main loop over the accounts
\* ------------------------------------------------------------------------
VARIABLES
    mainPc,           \* position of the main thread in __main__
    acct,             \* index of the account of the current loop iteration
    backedUp,         \* accounts for which backup() has been called
    exitStatus        \* the exit status of the process, None while it runs

mvars == <<mainPc, acct, backedUp, exitStatus>>

\* ------------------------------------------------------------------------
\* State of a replay of a saved archive (ApiParser with prev_resps)
\* ------------------------------------------------------------------------
VARIABLES
    prev_resps,           \* ApiParser.prev_resps: the saved responses, sorted; None in live mode
    rmode,                \* the mode of the run: "posts", "period" or "likes"
    rcall,                \* the arguments of the apiparse call
    rlive,                \* the page the live source answers to the call
    rreplay,              \* the page apiparse answers to the call in replay mode
    rpc                   \* position of the replayed loop

rvars == <<prev_resps, rmode, rcall, rlive, rreplay, rpc>>

\* ------------------------------------------------------------------------
\* State of the index rebuild (Indices.build_index, Index.save_index)
\* ------------------------------------------------------------------------
VARIABLES
    globbed,              \* the post files in the order glob() enumerates them
    iopt,                 \* the options the index reads
    clock,                \* the time strftime() reads
    out,                  \* the files the last rebuild wrote
    lastOut,              \* History: the files the rebuild before that wrote
    rescanned,            \* History: the enumeration changed between the two rebuilds
    builds                \* History: number of rebuilds done

ivars == <<globbed, iopt, clock, out, lastOut, rescanned, builds>>

\* ------------------------------------------------------------------------
\* State of one save job (TumblrPost.save_content)
\* ------------------------------------------------------------------------
VARIABLES
    media,                \* the media elements of the post, in the order save_content meets them
    sopt,                 \* the options save_content reads
    spos,                 \* the number of media elements handled so far
    content,              \* per handled element, the link put into the content
    wgerrors,             \* History: the elements whose retrieval raised WGError
    media_files,          \* the elements whose media file is in the media folder
    post_file,            \* the links in the post file
    post_saved,           \* save_post has written the post file
    job,                  \* position of the job
    swpc                  \* position of the thread that runs the job

svars == <<media, sopt, spos, content, wgerrors, media_files, post_file, post_saved, job, swpc>>

\* ------------------------------------------------------------------------
\* State of the loop of _backup over one page, with every test of a post
\* ------------------------------------------------------------------------
VARIABLES
    fopt,                 \* the options the tests read
    fpost,                \* the post of the last iteration: what the tests see of it
    foutcome,             \* History: how the last iteration ended
    fcount,               \* History: the number of posts examined
    filter_skipped,       \* TumblrBackup.filter_skipped
    fsubmitted,           \* History: the number of posts given to add_work
    fpc                   \* position of _backup

fvars == <<fopt, fpost, foutcome, fcount, filter_skipped, fsubmitted, fpc>>

\* ------------------------------------------------------------------------
\* State of the threads around disable_note_scraper
\* ------------------------------------------------------------------------
VARIABLES
    disable_note_scraper, \* the accounts whose notes are not scraped any more
    disablens_lock,       \* the thread that holds the lock (NoThread: none)
    npc,                  \* per thread, its position
    nrounds,              \* per thread, the number of times it has reached the lock
    ns_logged,            \* History: the 'scraping disabled' messages logged
    ns_adds               \* History: the calls of disable_note_scraper.add

nvars == <<disable_note_scraper, disablens_lock, npc, nrounds, ns_logged, ns_adds>>

\* ------------------------------------------------------------------------
\* State of a run that reads its pages from a previous archive
\* ------------------------------------------------------------------------
VARIABLES
    rsubmitted,           \* History: per post identity, the number of add_work calls
    rend,                 \* how the pagination loop ended ("none": it has not)
    rrequests,            \* History: the parameters of the page requests sent
    rskip                 \* options.skip

qvars == <<rsubmitted, rend, rrequests, rskip>>

\* the variables of the specifications below the index rebuild
xvars == <<fvars, nvars, qvars>>

vars == <<cvars, pvars, mvars, rvars, ivars, svars, xvars>>

\* groups of variables, for the UNCHANGED clauses
static == <<opt, ident_max>>
apiv == <<apiArgs, sleep_dur, requests, sleeps, net>>
cursor == <<i, before>>
pagev == <<k, post, oldest_date, min_date>>
hist == <<added, addedTwice, indexed>>
tbv == <<post_count, failed_blogs, total_count>>

ACCOUNT == "blog"

\* ------------------------------------------------------------------------
\* Options (argparse defaults, and the values a run may set instead)
\* ------------------------------------------------------------------------
DefaultOptions ==
    [likes |-> FALSE, period |-> FALSE, incremental |-> FALSE, count |-> None,
     skip |-> 0, no_post_clobber |-> FALSE]

AllOptions ==
    [likes : BOOLEAN, period : BOOLEAN, incremental : BOOLEAN, count : {None, 1, 2},
     skip : {0, 1}, no_post_clobber : BOOLEAN]

NonDefault(o) == {f \in DOMAIN o : o[f] # DefaultOptions[f]}

\* a period together with an incremental backup
PeriodIncremental == [DefaultOptions EXCEPT !.period = TRUE, !.incremental = TRUE]

Options == {o \in AllOptions : Cardinality(NonDefault(o)) <= MaxOpts} \cup {PeriodIncremental}

\* ------------------------------------------------------------------------
\* Posts
\* ------------------------------------------------------------------------
\* A post record: its identity and its effective timestamp
\* (post['liked_timestamp' if options.likes else 'timestamp']).
Posts == [id : Ids, ts : Times]

NoPost == [id |-> None, ts |-> None]

\* sort_key of _backup
sort_key(p) == IF opt.likes THEN p.ts ELSE p.id

\* the run compares the timestamps of posts with something other than each
\* other: the period bounds, or ident_max in likes mode
TimestampRead == opt.period \/ (opt.likes /\ opt.incremental)

\* The posts of a live page are drawn one by one when the loop of _backup
\* reads them, in the order of sorted_posts: descending by sort_key. Where
\* the run does not read timestamps, all posts carry the same one. One page
\* does not hold the same post twice in a row.
NextInSortedPosts(p) ==
    /\ post # NoPost => (sort_key(p) <= sort_key(post) /\ p.id # post.id)
    /\ TimestampRead \/ p.ts = p_start

\* ------------------------------------------------------------------------
\* ApiParser.apiparse, live mode
\* ------------------------------------------------------------------------
\* first back-off duration, in seconds
SLEEP_INIT == 30

\* the parameters of the request
ApiParams(count, start, bef) ==
    [base   |-> IF dashboard_only_blog = "True" THEN "svc" ELSE "api",
     limit  |-> count,
     before |-> IF bef # None /\ dashboard_only_blog # "True" THEN bef ELSE None,
     offset |-> IF (bef = None \/ dashboard_only_blog = "True") /\ start > 0
                THEN start ELSE None]

RequestParams == ApiParams(apiArgs.count, apiArgs.start, apiArgs.before)

\* a throttle loop that sleeps again for the same duration
NextSleep_NoDoubling(d) == d

\* sleep_dur *= 2
NextSleep(d) == d * 2

NoneResp == [ok |-> FALSE, n |-> 0, share_likes |-> TRUE]

\* no call of apiparse is active; cause is the answer that made apiparse
\* call itself, "none" in a call made by backup()
NoCall == [count |-> 0, start |-> 0, before |-> None, ctx |-> "none", cause |-> "none"]

\* entry of apiparse(count, start, before), called from ctx
CallApi(count, start, bef, ctx) ==
    /\ apiArgs' = [count |-> count, start |-> start, before |-> bef, ctx |-> ctx,
                   cause |-> "none"]
    /\ sleep_dur' = SLEEP_INIT
    /\ requests' = <<>>
    /\ sleeps' = <<>>
    /\ net' = <<>>
    /\ pc' = "api"

\* the caller has taken the value returned: the frame of apiparse is gone
ApiDone ==
    /\ apiArgs' = NoCall
    /\ sleep_dur' = SLEEP_INIT
    /\ requests' = <<>>
    /\ sleeps' = <<>>
    /\ net' = <<>>

Sent(status) == Append(requests, [params |-> RequestParams, status |-> status])

\* apiparse returns on the answer st: of the logs of the call only the
\* request that was answered last is kept, for the caller to see
ReturnOn(st) ==
    /\ requests' = <<[params |-> RequestParams, status |-> st]>>
    /\ sleeps' = <<>>
    /\ sleep_dur' = SLEEP_INIT
    /\ pc' = apiArgs.ctx

\* status 429: sleep, double the duration and send the request again
ApiThrottled ==
    /\ pc = "api"
    /\ Len(sleeps) < MaxThrottle
    /\ requests' = Sent("429")
    /\ sleeps' = Append(sleeps, sleep_dur)
    /\ sleep_dur' = NextSleep(sleep_dur)
    /\ UNCHANGED <<xvars, svars, ivars, rvars, pvars, mvars, static, pc, apiArgs, net, dashboard_only_blog, resp, npages,
                   cursor, pagev, hist, tbv, files, poolState, exc, stop, full>>

\* session.get raises OSError or HTTPError; is_dns_working is asked only
\* for an HTTPError
Exceptions == {e \in [http : BOOLEAN, dns : BOOLEAN] : e.http \/ e.dns}

\* an except clause that takes every exception for a failed request
OnRequestError_Fail(e) == "fail"

\* the except clause of _get_resp: with an HTTPError while DNS does not
\* work the no-internet signal is raised and the loop continues
OnRequestError(e) == IF e.http /\ ~e.dns THEN "retry" ELSE "fail"

\* session.get raises: the request is sent again, or _get_resp returns None
\* and so does apiparse
ApiRequestError ==
    /\ pc = "api"
    /\ \E e \in Exceptions :
          IF OnRequestError(e) = "retry"
          THEN /\ Len(net) < MaxOffline
               /\ net' = Append(net, [http |-> e.http, dns |-> e.dns, signalled |-> TRUE,
                                      params |-> RequestParams])
               /\ UNCHANGED <<pc, resp, requests, sleeps, sleep_dur>>
          ELSE /\ net' = <<[http |-> e.http, dns |-> e.dns, signalled |-> FALSE,
                             params |-> RequestParams]>>
               /\ ReturnOn("exception")
               /\ resp' = NoneResp
    /\ UNCHANGED <<xvars, svars, ivars, rvars, pvars, mvars, static, apiArgs, dashboard_only_blog, npages, cursor, pagev,
                   hist, tbv, files, poolState, exc, stop, full>>

\* The answers that are neither status 200 nor status 429: an API status
\* 404 with the single error code 4012, another non-200 API status, and the
\* answers for which _get_resp returns None (an HTTP status outside 2xx and
\* 4xx, a content type that is not JSON, a body that does not parse)
ApiErrorStatuses == {"404_4012", "4xx"}
NoDocStatuses == {"http5xx", "ctype", "body"}
TerminalStatuses == ApiErrorStatuses \cup NoDocStatuses

\* a switch that does not look at the choice made so far
SwitchesToDashboard_Always(st) == st = "404_4012" /\ ~opt.likes

\* the answer is the signature of a dashboard-only blog and the endpoint is
\* still undecided
SwitchesToDashboard(st) ==
    dashboard_only_blog = "None" /\ st = "404_4012" /\ ~opt.likes

\* a terminal answer: apiparse returns None
ApiFail ==
    /\ pc = "api"
    /\ \E st \in TerminalStatuses :
          /\ ~SwitchesToDashboard(st)
          /\ ReturnOn(st)
    /\ resp' = NoneResp
    /\ net' = <<>>
    /\ UNCHANGED <<xvars, svars, ivars, rvars, pvars, mvars, static, apiArgs, dashboard_only_blog, npages, cursor, pagev,
                   hist, tbv, files, poolState, exc, stop, full>>

\* the signature of a dashboard-only blog while the endpoint is undecided:
\* switch to the svc API and recurse once, without 'before'
ApiDashboard ==
    /\ pc = "api"
    /\ \E st \in ApiErrorStatuses :
          /\ SwitchesToDashboard(st)
          /\ apiArgs' = [apiArgs EXCEPT !.before = None, !.cause = st]
    /\ dashboard_only_blog' = "True"
    /\ sleep_dur' = SLEEP_INIT
    /\ requests' = <<>>
    /\ sleeps' = <<>>
    /\ net' = <<>>
    /\ pc' = "api"
    /\ UNCHANGED <<xvars, svars, ivars, rvars, pvars, mvars, static, resp, npages, cursor, pagev, hist, tbv, files,
                   poolState, exc, stop, full>>

\* status 200: apiparse returns the response. The page of the first call
\* (apiparse(1), blog information) is not read by backup().
ApiOk ==
    /\ pc = "api"
    /\ \E n \in 0..apiArgs.count, sl \in BOOLEAN :
        /\ IF apiArgs.ctx = "info_ret" THEN n = 0 ELSE (n > 0 => npages < MaxPages)
        /\ IF opt.likes /\ apiArgs.ctx = "info_ret" THEN TRUE ELSE sl
        /\ resp' = [ok |-> TRUE, n |-> n, share_likes |-> sl]
        /\ npages' = IF n > 0 THEN npages + 1 ELSE npages
    /\ ReturnOn("200")
    /\ net' = <<>>
    /\ dashboard_only_blog' = IF dashboard_only_blog = "None" THEN "False"
                              ELSE dashboard_only_blog
    /\ UNCHANGED <<xvars, svars, ivars, rvars, pvars, mvars, static, apiArgs, cursor, pagev, hist, tbv, files,
                   poolState, exc, stop, full>>

\* ------------------------------------------------------------------------
\* TumblrBackup.backup: the pagination loop
\* ------------------------------------------------------------------------
\* a loop that takes a failed fetch for a page
FetchFailed_Never(r) == FALSE

\* the test of the value returned by apiparse: None is a failed fetch
FetchFailed(r) == ~r.ok

\* the first apiparse(1) failed, or the likes are not public: the account
\* is marked failed and backup() returns. Otherwise the thread pool is
\* started and the loop entered with its first cursor.
InfoReturn ==
    /\ pc = "info_ret"
    /\ IF FetchFailed(resp) \/ (opt.likes /\ ~resp.share_likes)
       THEN /\ failed_blogs' = Append(failed_blogs, ACCOUNT)
            /\ pc' = "returned"
            /\ ApiDone
            /\ UNCHANGED <<cursor, poolState>>
       ELSE /\ poolState' = "running"
            /\ i' = opt.skip
            /\ before' = IF opt.period THEN p_stop ELSE None
            /\ CallApi(MAX_POSTS, i', before', "loop_ret")
            /\ UNCHANGED failed_blogs
    /\ UNCHANGED <<xvars, svars, ivars, rvars, pvars, mvars, static, dashboard_only_blog, resp, npages, pagev, hist,
                   post_count, total_count, files, exc, stop, full>>

\* the loop after apiparse: terminal failure, empty page, or _backup starts
PageReturn ==
    /\ pc = "loop_ret"
    /\ ApiDone
    /\ IF FetchFailed(resp)
       THEN /\ failed_blogs' = Append(failed_blogs, ACCOUNT)
            /\ stop' = "failure"
            /\ pc' = "wait"
            /\ UNCHANGED pagev
       ELSE IF resp.n = 0
       THEN /\ stop' = "empty"
            /\ pc' = "wait"
            /\ UNCHANGED <<failed_blogs, pagev>>
       ELSE /\ pc' = "post"
            /\ k' = 0
            /\ post' = NoPost
            /\ oldest_date' = None
            /\ min_date' = None
            /\ UNCHANGED <<failed_blogs, stop>>
    /\ UNCHANGED <<xvars, svars, ivars, rvars, pvars, mvars, static, dashboard_only_blog, resp, npages, cursor, hist,
                   post_count, total_count, files, poolState, exc, full>>

\* an except clause that re-raises without cancelling the pool
Raise_NoCancel(e) ==
    /\ UNCHANGED poolState
    /\ exc' = e
    /\ pc' = "raised"

\* the except clause of backup(): cancel the pool and re-raise
Raise(e) ==
    /\ poolState' = "cancelled"
    /\ exc' = e
    /\ pc' = "raised"

\* an incremental test that lets the recorded maximum itself through
IncrementalStop_Strict(p) == ident_max # None /\ sort_key(p) < ident_max

\* incremental-stop test of _backup
IncrementalStop(p) == ident_max # None /\ sort_key(p) <= ident_max

\* a period test that lets every newer post through
AfterPeriod_Never(p) == opt.period /\ p.ts > p_stop /\ p.ts < p_start

\* options.period and post.date > options.p_stop
AfterPeriod(p) == opt.period /\ p.ts > p_stop

\* options.period and post.date < options.p_start
BeforePeriod(p) == opt.period /\ p.ts < p_start

\* identities submitted whose post file is not on disk (yet)
Unsaved == added \ files

\* os.path.exists(path_to(*post.get_path())) and options.no_post_clobber
NoClobberSkip(p, onDisk) == p.id \in onDisk /\ opt.no_post_clobber

\* One iteration of the loop of _backup, up to the submission. The job of
\* an earlier submission of the same identity may have written its post
\* file by now (done), which the no-clobber test then sees.
PostStep(p, done) ==
    /\ pc = "post"
    /\ k < resp.n
    /\ NextInSortedPosts(p)
    /\ done => (opt.no_post_clobber /\ p.id \in Unsaved)
    /\ k' = k + 1
    /\ post' = p
    /\ oldest_date' = p.ts
    /\ min_date' = IF min_date # None /\ min_date < p.ts THEN min_date ELSE p.ts
    /\ files' = IF done THEN files \cup {p.id} ELSE files
    /\ IF IncrementalStop(p)
       THEN /\ stop' = "incremental"
            /\ pc' = "wait"
            /\ UNCHANGED <<poolState, exc>>
       ELSE IF AfterPeriod(p) /\ dashboard_only_blog # "True"
       THEN /\ Raise("RuntimeError")
            /\ UNCHANGED stop
       ELSE IF AfterPeriod(p)
       THEN /\ pc' = "post"
            /\ UNCHANGED <<poolState, exc, stop>>
       ELSE IF BeforePeriod(p)
       THEN /\ stop' = "period"
            /\ pc' = "wait"
            /\ UNCHANGED <<poolState, exc>>
       ELSE IF NoClobberSkip(p, files')
       THEN /\ pc' = "post"
            /\ UNCHANGED <<poolState, exc, stop>>
       ELSE /\ pc' = "submit"
            /\ UNCHANGED <<poolState, exc, stop>>
    /\ UNCHANGED <<xvars, svars, ivars, rvars, pvars, mvars, static, apiv, dashboard_only_blog, resp, npages, cursor,
                   hist, tbv, full>>

\* add_work raised queue.Full: the loop tries again
AddWorkFull ==
    /\ pc = "submit"
    /\ ~full
    /\ full' = TRUE
    /\ UNCHANGED <<xvars, svars, ivars, rvars, pvars, mvars, static, pc, apiv, dashboard_only_blog, resp, npages, cursor,
                   pagev, hist, tbv, files, poolState, exc, stop>>

\* the break after a successful add_work
AddWorkBreaks == TRUE

\* a limit test that stops one post late
CountReached_Late(n) == opt.count # None /\ opt.count # 0 /\ n > opt.count

\* options.count and self.post_count >= options.count
CountReached(n) == opt.count # None /\ opt.count # 0 /\ n >= opt.count

\* add_work accepted the job: leave the retry loop, count the post
AddWorkOk ==
    /\ pc = "submit"
    /\ added' = added \cup {post.id}
    /\ addedTwice' = (addedTwice \/ post.id \in added)
    /\ full' = FALSE
    /\ IF ~AddWorkBreaks
       THEN UNCHANGED <<pc, post_count, stop>>
       ELSE /\ post_count' = post_count + 1
            /\ IF CountReached(post_count')
               THEN stop' = "count" /\ pc' = "wait"
               ELSE pc' = "post" /\ UNCHANGED stop
    /\ UNCHANGED <<xvars, svars, ivars, rvars, pvars, mvars, static, apiv, dashboard_only_blog, resp, npages, cursor,
                   pagev, failed_blogs, total_count, files, indexed,
                   poolState, exc>>

\* a cursor update without the tie-break
NextBefore_NoTieBreak(oldest, bef) == oldest

\* 'before' mode: the next cursor, with the tie-break
NextBefore(oldest, bef) == IF oldest = bef THEN oldest - 1 ELSE oldest

\* the loop paginates by 'before' cursors computed from the posts
BeforeMode == ~opt.likes /\ before # None /\ dashboard_only_blog # "True"

\* _backup returned True: advance the cursor and fetch the next page.
\* In likes mode the next cursor is the 'next' link of the response, which
\* is absent or carries the timestamp of the oldest post of the page.
PageDone ==
    /\ pc = "post"
    /\ k = resp.n
    /\ \E nxt \in {None, oldest_date} :
        /\ opt.likes \/ nxt = None
        /\ IF opt.likes /\ nxt = None
           THEN /\ stop' = "likes_end"
                /\ pc' = "wait"
                /\ UNCHANGED <<apiv, cursor, poolState, exc>>
           ELSE IF BeforeMode /\ ~(oldest_date <= before)
           THEN /\ Raise("AssertionError")
                /\ UNCHANGED <<apiv, cursor, stop>>
           ELSE /\ before' = IF opt.likes THEN nxt
                             ELSE IF BeforeMode THEN NextBefore(oldest_date, before)
                             ELSE before
                /\ i' = i + MAX_POSTS
                /\ CallApi(MAX_POSTS, i', before', "loop_ret")
                /\ UNCHANGED <<poolState, exc, stop>>
    /\ k' = 0
    /\ post' = NoPost
    /\ resp' = NoneResp
    /\ min_date' = None
    /\ UNCHANGED <<xvars, svars, ivars, rvars, pvars, mvars, static, dashboard_only_blog, npages, oldest_date, hist, tbv,
                   files, full>>

\* no index has been built in this run
NotIndexed == {None}

\* not options.blosxom and (self.post_count or options.count == 0)
BuildsIndex == post_count # 0 \/ opt.count = 0

\* a postprocessing that starts without waiting for the pool
WaitPool_NoDrain ==
    /\ pc = "wait"
    /\ pc' = IF BuildsIndex THEN "index" ELSE "returned"
    /\ UNCHANGED <<xvars, svars, ivars, rvars, pvars, mvars, static, apiv, dashboard_only_blog, resp, npages, cursor,
                   pagev, hist, tbv, files, poolState, exc, stop, full>>

\* backup_pool.wait() returns when the jobs are done, saved or failed;
\* the postprocessing follows, or the end of backup() when there is none
WaitPool ==
    /\ pc = "wait"
    /\ poolState' = "waited"
    /\ \E S \in SUBSET Unsaved : files' = files \cup S
    /\ pc' = IF BuildsIndex THEN "index" ELSE "returned"
    /\ UNCHANGED <<xvars, svars, ivars, rvars, pvars, mvars, static, apiv, dashboard_only_blog, resp, npages, cursor,
                   pagev, hist, tbv, exc, stop, full>>

\* the postprocessing: Indices(self).build_index() and save_index() scan the
\* post files and write the index pages; then the posts of the run are added
\* to the total and backup() returns
BuildIndex ==
    /\ pc = "index"
    /\ indexed' = files
    /\ total_count' = total_count + post_count
    /\ pc' = "returned"
    /\ UNCHANGED <<xvars, svars, ivars, rvars, pvars, mvars, static, apiv, dashboard_only_blog, resp, npages, cursor,
                   pagev, added, addedTwice, post_count, failed_blogs, files, poolState, exc, stop, full>>

\* The post files an earlier run left. Without no_post_clobber the loop reads
\* of them only the newest key (ident_max, incremental mode): one file stands
\* for them, and in likes mode its identity does not matter.
EarlierFiles ==
    IF opt.no_post_clobber THEN SUBSET Ids
    ELSE IF opt.incremental /\ opt.likes THEN {{}, {1}}
    ELSE IF opt.incremental THEN {{}} \cup {{m} : m \in Ids}
    ELSE {{}}

\* backup() up to its first apiparse(1): the post files of an earlier run
\* give ident_max in incremental mode
InitBackup ==
    /\ opt \in Options
    /\ files \in EarlierFiles
    /\ ident_max \in (IF ~opt.incremental \/ files = {} THEN {None}
                      ELSE IF opt.likes THEN Times
                      ELSE {Max(files)})
    /\ pc = "api"
    /\ apiArgs = [count |-> 1, start |-> 0, before |-> None, ctx |-> "info_ret",
                  cause |-> "none"]
    /\ dashboard_only_blog = "None"
    /\ sleep_dur = SLEEP_INIT
    /\ requests = <<>>
    /\ sleeps = <<>>
    /\ net = <<>>
    /\ resp = NoneResp
    /\ i = 0
    /\ before = None
    /\ post_count = 0
    /\ failed_blogs = <<>>
    /\ total_count = 0
    /\ k = 0
    /\ post = NoPost
    /\ oldest_date = None
    /\ min_date = None
    /\ added = {}
    /\ addedTwice = FALSE
    /\ npages = 0
    /\ poolState = "none"
    /\ exc = "none"
    /\ stop = "none"
    /\ full = FALSE
    /\ indexed = NotIndexed

\* the variables of backup() where no account run is modelled
NoBackup ==
    /\ opt = DefaultOptions
    /\ files = {}
    /\ ident_max = None
    /\ pc = "none"
    /\ apiArgs = NoCall
    /\ dashboard_only_blog = "None"
    /\ sleep_dur = SLEEP_INIT
    /\ requests = <<>>
    /\ sleeps = <<>>
    /\ net = <<>>
    /\ resp = NoneResp
    /\ i = 0
    /\ before = None
    /\ post_count = 0
    /\ failed_blogs = <<>>
    /\ total_count = 0
    /\ k = 0
    /\ post = NoPost
    /\ oldest_date = None
    /\ min_date = None
    /\ added = {}
    /\ addedTwice = FALSE
    /\ npages = 0
    /\ poolState = "none"
    /\ exc = "none"
    /\ stop = "none"
    /\ full = FALSE
    /\ indexed = NotIndexed

\* ------------------------------------------------------------------------
\* ThreadPool: the bounded work queue, its worker threads and the calls
\* of the controller thread
\* ------------------------------------------------------------------------
\* ThreadPool(thread_count, max_queue), scaled down
thread_count == 2
max_queue == 2
\* the controller submits at most this many jobs
MaxJobs == 3

Workers == 1..thread_count
Jobs == 1..MaxJobs

\* a queue built with room for one job more
QueueMaxsize_OneMore == max_queue + 1

\* the LockedQueue of the pool is built with maxsize max_queue
QueueMaxsize == max_queue

\* Queue.put(timeout=...) finds no free slot before its timeout
QueueFull(q) == QueueMaxsize > 0 /\ Len(q) >= QueueMaxsize

\* jobs handed to a worker and not yet marked done
Executing == {work[w] : w \in Workers} \ {0}

\* jobs accepted by add_work so far
Accepted == 1..(nextJob - 1)

InitPool ==
    /\ queue = <<>>
    /\ unfinished_tasks = 0
    /\ quit = FALSE
    /\ abort = FALSE
    /\ wpc = [w \in Workers |-> "loop"]
    /\ work = [w \in Workers |-> 0]
    /\ raised = [w \in Workers |-> FALSE]
    /\ ctl = "run"
    /\ nextJob = 1
    /\ lastAdd = "none"
    /\ executed = [j \in Jobs |-> 0]
    /\ completed = [j \in Jobs |-> 0]
    /\ atCancel = {}

\* the variables of the pool where no pool is modelled
NoPool ==
    /\ queue = <<>>
    /\ unfinished_tasks = 0
    /\ quit = FALSE
    /\ abort = FALSE
    /\ wpc = [w \in Workers |-> "none"]
    /\ work = [w \in Workers |-> 0]
    /\ raised = [w \in Workers |-> FALSE]
    /\ ctl = "none"
    /\ nextJob = 1
    /\ lastAdd = "none"
    /\ executed = [j \in Jobs |-> 0]
    /\ completed = [j \in Jobs |-> 0]
    /\ atCancel = {}

\* add_work(job, timeout=0.1) with a free slot: Queue.put appends the job
\* and counts it as unfinished
AddWork ==
    /\ ctl = "run"
    /\ nextJob <= MaxJobs
    /\ ~QueueFull(queue)
    /\ queue' = Append(queue, nextJob)
    /\ unfinished_tasks' = unfinished_tasks + 1
    /\ nextJob' = nextJob + 1
    /\ lastAdd' = "ok"
    /\ UNCHANGED <<xvars, svars, ivars, rvars, cvars, mvars, quit, abort, wpc, work, raised, ctl, executed,
                   completed, atCancel>>

\* add_work(job, timeout=0.1) on a queue that stays full until the timeout:
\* Queue.put raises queue.Full
AddWorkRaisesFull ==
    /\ ctl = "run"
    /\ nextJob <= MaxJobs
    /\ QueueFull(queue)
    /\ lastAdd' = "full"
    /\ UNCHANGED <<xvars, svars, ivars, rvars, cvars, mvars, queue, unfinished_tasks, quit, abort, wpc, work,
                   raised, ctl, nextJob, executed, completed, atCancel>>

\* wait(): quit.set()
WaitStart ==
    /\ ctl = "run"
    /\ quit' = TRUE
    /\ ctl' = "waiting"
    /\ UNCHANGED <<xvars, svars, ivars, rvars, cvars, mvars, queue, unfinished_tasks, abort, wpc, work, raised,
                   nextJob, lastAdd, executed, completed, atCancel>>

\* a wait() that only looks at the jobs still queued
WaitMayReturn_QueueEmpty == queue = <<>>

\* the test that ends the loop of wait()
WaitMayReturn == unfinished_tasks = 0

\* wait(): the loop runs until the queue has no unfinished task
WaitReturn ==
    /\ ctl = "waiting"
    /\ WaitMayReturn
    /\ ctl' = "waited"
    /\ UNCHANGED <<xvars, svars, ivars, rvars, cvars, mvars, queue, unfinished_tasks, quit, abort, wpc, work,
                   raised, nextJob, lastAdd, executed, completed, atCancel>>

\* wait(): a KeyboardInterrupt arrives in the loop of wait(). The call of
\* wait() in backup() is after the try statement whose except clause
\* cancels the pool, so the exception leaves backup() as it is and
\* __main__ calls sys.exit(EXIT_INTERRUPT); the threads are not daemon
\* threads and go on until they leave handler() by themselves
WaitInterrupted ==
    /\ ctl = "waiting"
    /\ ctl' = "interrupted"
    /\ UNCHANGED <<xvars, svars, ivars, rvars, cvars, mvars, queue, unfinished_tasks, quit, abort, wpc, work,
                   raised, nextJob, lastAdd, executed, completed, atCancel>>

\* cancel(): abort.set()
CancelStart ==
    /\ ctl = "run"
    /\ abort' = TRUE
    /\ atCancel' = {queue[n] : n \in 1..Len(queue)}
    /\ ctl' = "joining"
    /\ UNCHANGED <<xvars, svars, ivars, rvars, cvars, mvars, queue, unfinished_tasks, quit, wpc, work, raised,
                   nextJob, lastAdd, executed, completed>>

\* a thread has left handler(), by return or by an exception
Terminated(w) == wpc[w] \in {"exit", "dead"}

\* cancel(): every thread is joined, then the queue is cleared
CancelJoined ==
    /\ ctl = "joining"
    /\ \A w \in Workers : Terminated(w)
    /\ queue' = <<>>
    /\ ctl' = "cancelled"
    /\ UNCHANGED <<xvars, svars, ivars, rvars, cvars, mvars, unfinished_tasks, quit, abort, wpc, work, raised,
                   nextJob, lastAdd, executed, completed, atCancel>>

\* handler(): the test of the while loop
LoopTest(w) ==
    /\ wpc[w] = "loop"
    /\ wpc' = [wpc EXCEPT ![w] = IF abort THEN "exit" ELSE "get"]
    /\ UNCHANGED <<xvars, svars, ivars, rvars, cvars, mvars, queue, unfinished_tasks, quit, abort, work, raised,
                   ctl, nextJob, lastAdd, executed, completed, atCancel>>

\* a get that waits on an empty queue without a timeout
AfterEmpty_Blocks(q) == IF q THEN "get" ELSE "get"

\* handler(): except queue.Empty: break if quit is set, continue if not
AfterEmpty(q) == IF q THEN "exit" ELSE "loop"

\* handler(): queue.get under the mutex. An empty queue raises queue.Empty
\* (at once when quit is set, after the timeout otherwise); the thread then
\* leaves the loop if quit is set and starts the next iteration if not
GetWork(w) ==
    /\ wpc[w] = "get"
    /\ IF queue # <<>>
       THEN /\ work' = [work EXCEPT ![w] = Head(queue)]
            /\ queue' = Tail(queue)
            /\ wpc' = [wpc EXCEPT ![w] = "work"]
       ELSE /\ wpc' = [wpc EXCEPT ![w] = AfterEmpty(quit)]
            /\ UNCHANGED <<work, queue>>
    /\ UNCHANGED <<xvars, svars, ivars, rvars, cvars, mvars, unfinished_tasks, quit, abort, raised, ctl, nextJob,
                   lastAdd, executed, completed, atCancel>>

\* handler(): work() runs the body of the job, which returns or raises
RunWork(w) ==
    /\ wpc[w] = "work"
    /\ executed' = [executed EXCEPT ![work[w]] = @ + 1]
    /\ \E r \in BOOLEAN : raised' = [raised EXCEPT ![w] = r]
    /\ wpc' = [wpc EXCEPT ![w] = "finally"]
    /\ UNCHANGED <<xvars, svars, ivars, rvars, cvars, mvars, queue, unfinished_tasks, quit, abort, work, ctl,
                   nextJob, lastAdd, completed, atCancel>>

\* where the thread goes after the finally clause: the try statement has no
\* except clause, so an exception of the body leaves handler()
AfterFinally(r) == IF r THEN "dead" ELSE "loop"

\* handler(): finally: queue.task_done()
TaskDone(w) ==
    /\ wpc[w] = "finally"
    /\ completed' = [completed EXCEPT ![work[w]] = @ + 1]
    /\ unfinished_tasks' = unfinished_tasks - 1
    /\ work' = [work EXCEPT ![w] = 0]
    /\ raised' = [raised EXCEPT ![w] = FALSE]
    /\ wpc' = [wpc EXCEPT ![w] = AfterFinally(raised[w])]
    /\ UNCHANGED <<xvars, svars, ivars, rvars, cvars, mvars, queue, quit, abort, ctl, nextJob, lastAdd, executed,
                   atCancel>>

NextPool ==
    \/ AddWork
    \/ AddWorkRaisesFull
    \/ WaitStart
    \/ WaitReturn
    \/ WaitInterrupted
    \/ CancelStart
    \/ CancelJoined
    \/ \E w \in Workers : LoopTest(w)
    \/ \E w \in Workers : GetWork(w)
    \/ \E w \in Workers : RunWork(w)
    \/ \E w \in Workers : TaskDone(w)

\* ------------------------------------------------------------------------
\* __main__: the loop over the accounts, with each backup() call
\* summarised by the ways it can end
\* ------------------------------------------------------------------------
\* the command line names this many accounts
NAccounts == 3
\* one account run submits at most this many posts
MaxPostCount == 2

Accounts == 1..NAccounts

EXIT_SUCCESS == 0
EXIT_NOPOSTS == 1
EXIT_INTERRUPT == 3
EXIT_ERRORS == 4

\* TumblrBackup.exit_code()
exit_code ==
    IF failed_blogs # <<>> THEN EXIT_ERRORS
    ELSE IF total_count = 0 THEN EXIT_NOPOSTS
    ELSE EXIT_SUCCESS

\* the exceptions that backup() raises itself or lets through: the period
\* consistency error, the TypeError of a post snapshot that is not valid
\* JSON, the failed assert on the cursor
FatalErrors == {"RuntimeError", "TypeError", "AssertionError"}

InitMain ==
    /\ mainPc = "loop"
    /\ acct = 1
    /\ backedUp = {}
    /\ exitStatus = None

\* for i, account in enumerate(blogs): tb.backup(account, ...)
CallBackup ==
    /\ mainPc = "loop"
    /\ acct <= NAccounts
    /\ backedUp' = backedUp \cup {acct}
    /\ post_count' = 0
    /\ mainPc' = "backup"
    /\ UNCHANGED <<xvars, svars, ivars, rvars, pvars, static, apiv, cursor, pagev, hist, pc, dashboard_only_blog,
                   resp, files, npages, poolState, exc, stop, full, failed_blogs,
                   total_count, acct, exitStatus>>

\* backup(): the first apiparse(1) fails, or the likes are not public:
\* the account is recorded as failed and backup() returns
BackupInfoFails ==
    /\ mainPc = "backup"
    /\ failed_blogs' = Append(failed_blogs, acct)
    /\ acct' = acct + 1
    /\ mainPc' = "loop"
    /\ UNCHANGED <<xvars, svars, ivars, rvars, pvars, static, apiv, cursor, pagev, hist, pc, dashboard_only_blog,
                   resp, files, npages, poolState, exc, stop, full, post_count,
                   total_count, backedUp, exitStatus>>

\* backup(): the pagination loop ends, after a page fetch that failed
\* (the account is recorded as failed) or for another reason; the pool is
\* waited for and the posts of the account are added to the total
BackupReturns ==
    /\ mainPc = "backup"
    /\ \E n \in 0..MaxPostCount, failure \in BOOLEAN :
          /\ post_count' = n
          /\ total_count' = total_count + n
          /\ failed_blogs' = IF failure THEN Append(failed_blogs, acct) ELSE failed_blogs
    /\ acct' = acct + 1
    /\ mainPc' = "loop"
    /\ UNCHANGED <<xvars, svars, ivars, rvars, pvars, static, apiv, cursor, pagev, hist, pc, dashboard_only_blog,
                   resp, files, npages, poolState, exc, stop, full, backedUp,
                   exitStatus>>

\* the except clause of __main__ names KeyboardInterrupt only
MainCatches(e) == e = "KeyboardInterrupt"

\* backup(): an exception leaves the pagination loop; the pool is cancelled
\* and the exception is raised again, out of backup() and into __main__,
\* which exits with EXIT_INTERRUPT if it catches it and dies with the
\* traceback (exit status 1) if not
BackupRaises ==
    /\ mainPc = "backup"
    /\ \E e \in FatalErrors \cup {"KeyboardInterrupt"}, n \in 0..MaxPostCount :
          /\ exc' = e
          /\ post_count' = n
          /\ IF MainCatches(e)
             THEN exitStatus' = EXIT_INTERRUPT /\ mainPc' = "exited"
             ELSE exitStatus' = 1 /\ mainPc' = "died"
    /\ UNCHANGED <<xvars, svars, ivars, rvars, pvars, static, apiv, cursor, pagev, hist, pc, dashboard_only_blog,
                   resp, files, npages, poolState, stop, full, failed_blogs,
                   total_count, acct, backedUp>>

\* after the loop: sys.exit(tb.exit_code())
MainExit ==
    /\ mainPc = "loop"
    /\ acct > NAccounts
    /\ exitStatus' = exit_code
    /\ mainPc' = "exited"
    /\ UNCHANGED <<xvars, svars, ivars, rvars, cvars, pvars, acct, backedUp>>

NextMain ==
    \/ CallBackup
    \/ BackupInfoFails
    \/ BackupReturns
    \/ BackupRaises
    \/ MainExit

\* ------------------------------------------------------------------------
\* The specifications
\* ------------------------------------------------------------------------
\* the variables of the main loop where no main loop is modelled
NoMain ==
    /\ mainPc = "none"
    /\ acct = 0
    /\ backedUp = {}
    /\ exitStatus = None

\* ------------------------------------------------------------------------
\* ApiParser.apiparse, replay mode, beside the live source
\* ------------------------------------------------------------------------
\* the posts an archive may hold: identities and timestamps ordered alike
ArchivePosts == {[id |-> n, ts |-> n] : n \in 1..MaxArchive}

\* the sort key of read_archive
ArchiveKey(p, likes) == IF likes THEN p.ts ELSE p.id

\* read_archive: the saved responses, descending by the sort key
RECURSIVE read_archive(_, _)
read_archive(S, likes) ==
    IF S = {} THEN <<>>
    ELSE LET p == CHOOSE x \in S : \A y \in S : ArchiveKey(y, likes) <= ArchiveKey(x, likes)
         IN  <<p>> \o read_archive(S \ {p}, likes)

\* itertools.dropwhile(timestamp >= before, posts)
RECURSIVE dropwhile(_, _)
dropwhile(bef, posts) ==
    IF posts # <<>> /\ Head(posts).ts >= bef THEN dropwhile(bef, Tail(posts)) ELSE posts

\* itertools.islice(posts, start, end)
islice(posts, start, end) ==
    SubSeq(posts, start + 1, IF end < Len(posts) THEN end ELSE Len(posts))

\* the posts of the reconstructed response
ReplayPosts(count, start, bef) ==
    islice(IF bef # None THEN dropwhile(bef, prev_resps) ELSE prev_resps, start, start + count)

\* apiparse with prev_resps: the reconstructed response
ReplayResponse(count, start, bef) ==
    [posts_key |-> "posts", posts |-> ReplayPosts(count, start, bef)]

\* the posts of seq that the parameters of a request select: those before
\* the 'before' timestamp, from the offset on, up to the limit
SelectPosts(seq, params) ==
    LET older == SelectSeq(seq, LAMBDA p : params.before = None \/ p.ts < params.before)
        from  == IF params.offset = None THEN 0 ELSE params.offset
    IN  islice(older, from, from + params.limit)

\* the live answer to the request apiparse sends for the same arguments
LiveResponse(count, start, bef) ==
    [posts_key |-> IF rmode = "likes" THEN "liked_posts" ELSE "posts",
     posts     |-> SelectPosts(prev_resps, ApiParams(count, start, bef))]

NoPage == [posts_key |-> "none", posts |-> <<>>]

\* a run in 'continue' mode: the archive read, before the first page call
InitReplay ==
    /\ rmode \in {"posts", "period", "likes"}
    /\ \E S \in SUBSET ArchivePosts : prev_resps = read_archive(S, rmode = "likes")
    /\ rcall = [count |-> MAX_POSTS, start |-> 0,
                before |-> IF rmode = "period" THEN MaxArchive + 1 ELSE None]
    /\ rlive = NoPage
    /\ rreplay = NoPage
    /\ rpc = "call"

\* the variables of the replay where no replay is modelled
NoReplay ==
    /\ prev_resps = None
    /\ rmode = "none"
    /\ rcall = [count |-> 0, start |-> 0, before |-> None]
    /\ rlive = NoPage
    /\ rreplay = NoPage
    /\ rpc = "none"

\* apiparse(MAX_POSTS, i, before) answered by both sources
ReplayFetch ==
    /\ rpc = "call"
    /\ rlive' = LiveResponse(rcall.count, rcall.start, rcall.before)
    /\ rreplay' = ReplayResponse(rcall.count, rcall.start, rcall.before)
    /\ rpc' = "answered"
    /\ UNCHANGED <<xvars, svars, ivars, cvars, pvars, mvars, prev_resps, rmode, rcall>>

\* the loop of backup() on the live page: stop on an empty page, else
\* advance the cursor as the mode tells and call again
ReplayAdvance ==
    /\ rpc = "answered"
    /\ IF rlive.posts = <<>>
       THEN /\ rpc' = "done"
            /\ UNCHANGED rcall
       ELSE LET oldest == rlive.posts[Len(rlive.posts)].ts
            IN  /\ rcall' = [count  |-> MAX_POSTS,
                             start  |-> rcall.start + MAX_POSTS,
                             before |-> IF rmode = "likes" THEN oldest
                                        ELSE IF rmode = "period"
                                        THEN NextBefore(oldest, rcall.before)
                                        ELSE rcall.before]
                /\ rpc' = "call"
    /\ UNCHANGED <<xvars, svars, ivars, cvars, pvars, mvars, prev_resps, rmode, rlive, rreplay>>

NextReplay ==
    \/ ReplayFetch
    \/ ReplayAdvance

\* ------------------------------------------------------------------------
\* Indices.build_index and Index.save_index / save_month
\* ------------------------------------------------------------------------
\* LocalPost.tm: the month a modification time falls in (year and month are
\* one number here; two timestamps fall in each month)
MonthOf(date) == (date + 1) \div 2

\* the enumerations of a set of post files
Enumerations(S) ==
    {e \in [1..Cardinality(S) -> S] : \A a, b \in 1..Cardinality(S) : e[a] = e[b] => a = b}

\* Index.add_post over the enumeration: the bucket of a month, in the order
\* the posts were added
Bucket(e, m) == SelectSeq(e, LAMBDA p : MonthOf(p.date) = m)

\* the keys of Index.index
IndexMonths(e) == {MonthOf(e[n].date) : n \in 1..Len(e)}

\* sorted(keys, reverse=...) of a set of numbers
RECURSIVE SortedKeys(_, _)
SortedKeys(S, reverse) ==
    IF S = {} THEN <<>>
    ELSE LET x == IF reverse THEN CHOOSE a \in S : \A b \in S : b <= a
                  ELSE CHOOSE a \in S : \A b \in S : a <= b
         IN  <<x>> \o SortedKeys(S \ {x}, reverse)

\* the sequence without its n-th element
Without(seq, n) == SubSeq(seq, 1, n - 1) \o SubSeq(seq, n + 1, Len(seq))

\* sorted(posts, key=date, reverse=...): Python's sort is stable, also when
\* reversed, so posts of the same date keep the order they come in
RECURSIVE SortedByDate(_, _)
SortedByDate(posts, reverse) ==
    IF posts = <<>> THEN <<>>
    ELSE LET first(n) == \A j \in 1..Len(posts) :
                           IF reverse THEN /\ posts[j].date <= posts[n].date
                                           /\ (j < n => posts[j].date < posts[n].date)
                           ELSE /\ posts[n].date <= posts[j].date
                                /\ (j < n => posts[n].date < posts[j].date)
             n == CHOOSE x \in 1..Len(posts) : first(x)
         IN  <<posts[n]>> \o SortedByDate(Without(posts, n), reverse)

\* posts_page of save_month
posts_page(o, posts_month) ==
    IF o.posts_per_page >= 1 THEN o.posts_per_page ELSE posts_month

\* a page count that forgets the page of the remainder
pages_per_month_NoRemainder(e, m, per_page) == Len(Bucket(e, m)) \div per_page

\* pages_per_month(y, m) of save_month, with the posts_page of the month
\* that is being saved
pages_per_month(e, m, per_page) ==
    Len(Bucket(e, m)) \div per_page + (IF Len(Bucket(e, m)) % per_page # 0 THEN 1 ELSE 0)

\* archives of save_index
archives(e, o) == SortedKeys(IndexMonths(e), o.reverse_month)

\* the empty link
NoLink == [month |-> 0, page |-> 0]

\* next_month(inc) of save_month: the neighbour of month m in archives
next_month(e, o, m, inc) ==
    LET a == archives(e, o)
        n == (CHOOSE x \in 1..Len(a) : a[x] = m) + inc
    IN  IF 1 <= n /\ n <= Len(a) THEN a[n] ELSE 0

\* slices that overlap by one post
PageSlice_Overlapping(posts, start, per_page) ==
    SubSeq(posts, IF start > 0 THEN start ELSE 1,
           IF start + per_page < Len(posts) THEN start + per_page ELSE Len(posts))

\* posts[start:start + posts_page]
PageSlice(posts, start, per_page) ==
    SubSeq(posts, start + 1,
           IF start + per_page < Len(posts) THEN start + per_page ELSE Len(posts))

\* range(0, posts_month, posts_page), enumerated from 1: the page numbers
PageNumbers(posts_month, per_page) ==
    {n \in 1..posts_month : (n - 1) * per_page < posts_month}

\* save_month: the archive pages of month m, each with its posts and its
\* previous and next link
save_month(e, o, m) ==
    LET posts == SortedByDate(Bucket(e, m), o.reverse_month)
        per   == posts_page(o, Len(posts))
        pages_month == pages_per_month(e, m, per)
        pm    == next_month(e, o, m, 0 - 1)
        nm    == next_month(e, o, m, 1)
    IN  {[month |-> m,
          page  |-> n,
          posts |-> PageSlice(posts, (n - 1) * per, per),
          pp    |-> IF n > 1 THEN [month |-> m, page |-> n - 1]
                    ELSE IF pm # 0 THEN [month |-> pm, page |-> pages_per_month(e, pm, per)]
                    ELSE NoLink,
          np    |-> IF n < pages_month THEN [month |-> m, page |-> n + 1]
                    ELSE IF nm # 0 THEN [month |-> nm, page |-> 1]
                    ELSE NoLink] : n \in PageNumbers(Len(posts), per)}

\* save_index and save_year: the top-level index lists the months in the
\* order of reverse_index, each with its number of posts, and ends with the
\* time of its generation
save_index(e, o, now) ==
    LET listed == SortedKeys(IndexMonths(e), o.reverse_index)
    IN  [listing   |-> [n \in 1..Len(listed) |->
                           [month |-> listed[n], posts |-> Len(Bucket(e, listed[n]))]],
         generated |-> now]

\* the files one rebuild writes: the archive pages and the top-level index
Rebuilt(e, o, now) ==
    [pages |-> UNION {save_month(e, o, m) : m \in IndexMonths(e)},
     index |-> save_index(e, o, now)]

NoOutput == [pages |-> {}, index |-> [listing |-> <<>>, generated |-> "never"]]

IndexOptions ==
    [posts_per_page : 0..MaxPerPage, reverse_month : BOOLEAN, reverse_index : BOOLEAN]

\* The post files on disk: up to MaxFiles files. File names are only names,
\* so the files are numbered by ascending modification time; glob() may
\* enumerate them in any order.
FilesOfCount(c) ==
    {{[id |-> n, date |-> d[n]] : n \in 1..c} :
        d \in {f \in [1..c -> Times] : \A a, b \in 1..c : a < b => f[a] <= f[b]}}

PostFiles == UNION {FilesOfCount(c) : c \in 0..MaxFiles}

InitIndex ==
    /\ \E S \in PostFiles : globbed \in Enumerations(S)
    /\ iopt \in IndexOptions
    /\ clock = "t0"
    /\ out = NoOutput
    /\ lastOut = NoOutput
    /\ rescanned = FALSE
    /\ builds = 0

\* the variables of the index where no rebuild is modelled
NoIndex ==
    /\ globbed = <<>>
    /\ iopt = [posts_per_page |-> 0, reverse_month |-> TRUE, reverse_index |-> TRUE]
    /\ clock = "t0"
    /\ out = NoOutput
    /\ lastOut = NoOutput
    /\ rescanned = FALSE
    /\ builds = 0

\* Indices(self).build_index(); save_index()
Rebuild ==
    /\ builds < 2
    /\ out' = Rebuilt(globbed, iopt, clock)
    /\ lastOut' = out
    /\ builds' = builds + 1
    /\ UNCHANGED <<xvars, svars, cvars, pvars, mvars, rvars, globbed, iopt, clock, rescanned>>

\* between two rebuilds the directory comes to enumerate the same files in
\* another order: two neighbours change places
Rescan ==
    /\ builds = 1
    /\ ~rescanned
    /\ \E n \in 1..(Len(globbed) - 1) :
          globbed' = [globbed EXCEPT ![n] = globbed[n + 1], ![n + 1] = globbed[n]]
    /\ rescanned' = TRUE
    /\ UNCHANGED <<xvars, svars, cvars, pvars, mvars, rvars, iopt, clock, out, lastOut, builds>>

\* between two rebuilds time passes
Tick ==
    /\ builds = 1
    /\ clock = "t0"
    /\ clock' = "t1"
    /\ UNCHANGED <<xvars, svars, cvars, pvars, mvars, rvars, globbed, iopt, out, lastOut, rescanned, builds>>

NextIndex ==
    \/ Rebuild
    \/ Rescan
    \/ Tick

\* ------------------------------------------------------------------------
\* TumblrPost.save_content: one save job and the media of its post
\* ------------------------------------------------------------------------
\* a post has at most this many media elements
MaxMedia == 2

\* the media elements save_content knows: the photo of a photo post, the
\* video of a video post, the audio of an audio post, and the img tag, the
\* poster attribute and the source tag inside the HTML of a post, the
\* source tag with a URL on tumblr.com or with a URL elsewhere
Kinds ==
    {"photo", "video", "audio", "inline_image", "inline_poster", "inline_video",
     "inline_video_ext"}

SaveOptions ==
    [save_images : BOOLEAN, save_video : BOOLEAN, save_video_tumblr : BOOLEAN,
     save_audio : BOOLEAN]

\* save_content: the option that makes it download an element
Wanted(kind, o) ==
    CASE kind \in {"photo", "inline_image"} -> o.save_images
      [] kind \in {"video", "inline_poster", "inline_video", "inline_video_ext"} ->
             o.save_video \/ o.save_video_tumblr
      [] kind = "audio" -> o.save_audio

\* a link to the file of element n in the media folder, and the URL the
\* post came with
Local(n) == [n |-> n, at |-> "local"]
Remote(n) == [n |-> n, at |-> "remote"]

\* the empty string where a URL is expected, and no value (None)
EmptyUrl(n) == [n |-> n, at |-> "empty"]
NotSaved == [n |-> 0, at |-> "none"]

\* the media downloader: it returns, or it raises WGError
Retrievals == {"retrieved", "WGError"}

\* what download_media finds: a URL that is not http(s), a file that is
\* there already (copied from the previous archive or from an earlier run),
\* or a file to retrieve
Outcomes == {"bad_url", "exists"} \cup Retrievals

\* what get_youtube_url finds: the file is there already, the extractor
\* downloads it, or the extractor raises
Extractions == {"exists", "retrieved", "ExtractError"}

\* what the handling of an element may find
OutcomesOf(kind, o) ==
    IF kind = "inline_video_ext"
    THEN IF o.save_video THEN Extractions ELSE {"not_tried"}
    ELSE Outcomes

\* download_media: the except clause around wget_retrieve
Caught(e) == e = "WGError"

\* download_media: the saved name, or None
download_media(n, found) ==
    IF found = "bad_url" THEN None
    ELSE IF found = "WGError" THEN None
    ELSE n

\* get_media_url
get_media_url(n, saved_name) ==
    IF saved_name # None THEN Local(saved_name) ELSE Remote(n)

\* an image link that never falls back to the URL of the post
get_image_url_AlwaysLocal(n, saved_name) == Local(n)

\* get_image_url
get_image_url(n, saved_name) ==
    IF saved_name # None THEN Local(saved_name) ELSE Remote(n)

\* get_inline_image, get_inline_video_poster: the tag as it was, or the tag
\* with the local file
get_inline_image(n, saved_name) ==
    IF saved_name = None THEN Remote(n) ELSE Local(saved_name)

\* get_youtube_url: the URL of the local file, or the empty string after
\* an exception of the extractor
get_youtube_url(n, found) ==
    IF found = "ExtractError" THEN EmptyUrl(n) ELSE Local(n)

\* get_inline_video: saved_name is what get_media_url returns for a URL on
\* tumblr.com, what get_youtube_url returns for another URL with
\* save_video, and None otherwise; the tag as it was if it is None, and the
\* tag with saved_name if not
get_inline_video(n, kind, o, found) ==
    LET saved_name ==
            IF kind = "inline_video" THEN get_media_url(n, download_media(n, found))
            ELSE IF o.save_video THEN get_youtube_url(n, found)
            ELSE NotSaved
    IN  IF saved_name = NotSaved THEN Remote(n) ELSE saved_name

\* save_content: the link of element n
Rendered(kind, n, found, o) ==
    CASE kind = "photo" -> get_image_url(n, download_media(n, found))
      [] kind \in {"video", "audio"} -> get_media_url(n, download_media(n, found))
      [] kind \in {"inline_image", "inline_poster"} ->
             get_inline_image(n, download_media(n, found))
      [] kind \in {"inline_video", "inline_video_ext"} -> get_inline_video(n, kind, o, found)

InitSave ==
    /\ media \in UNION {[1..c -> Kinds] : c \in 0..MaxMedia}
    /\ sopt \in SaveOptions
    /\ spos = 0
    /\ content = <<>>
    /\ wgerrors = {}
    /\ media_files = {}
    /\ post_file = <<>>
    /\ post_saved = FALSE
    /\ job = "queued"
    /\ swpc = "get"

\* the variables of the save job where none is modelled
NoSave ==
    /\ media = <<>>
    /\ sopt = [save_images |-> FALSE, save_video |-> FALSE, save_video_tumblr |-> FALSE,
               save_audio |-> FALSE]
    /\ spos = 0
    /\ content = <<>>
    /\ wgerrors = {}
    /\ media_files = {}
    /\ post_file = <<>>
    /\ post_saved = FALSE
    /\ job = "none"
    /\ swpc = "none"

\* handler(): the thread takes the job from the queue and calls work()
StartSave ==
    /\ job = "queued"
    /\ job' = "content"
    /\ swpc' = "work"
    /\ UNCHANGED <<xvars, cvars, pvars, mvars, rvars, ivars, media, sopt, spos, content, wgerrors,
                   media_files, post_file, post_saved>>

\* save_content: the next media element. Without the option of its kind the
\* URL of the post goes into the content; with it download_media is called
\* and the content gets what the caller makes of the saved name. An
\* exception that download_media does not catch leaves the job
HandleMedia ==
    /\ job = "content"
    /\ spos < Len(media)
    /\ LET n == spos + 1
           kind == media[n]
       IN  IF ~Wanted(kind, sopt)
           THEN /\ content' = Append(content, Remote(n))
                /\ spos' = n
                /\ UNCHANGED <<wgerrors, media_files, job>>
           ELSE \E found \in OutcomesOf(kind, sopt) :
                   /\ wgerrors' = IF found = "WGError" THEN wgerrors \cup {n} ELSE wgerrors
                   /\ media_files' = IF found \in {"exists", "retrieved"}
                                     THEN media_files \cup {n} ELSE media_files
                   /\ IF found = "WGError" /\ ~Caught(found)
                      THEN job' = "raised" /\ UNCHANGED <<content, spos>>
                      ELSE /\ content' = Append(content, Rendered(kind, n, found, sopt))
                           /\ spos' = n
                           /\ UNCHANGED job
    /\ UNCHANGED <<xvars, cvars, pvars, mvars, rvars, ivars, media, sopt, post_file, post_saved, swpc>>

\* save_content: self.save_post() writes the post file; the job returns
SavePost ==
    /\ job = "content"
    /\ spos = Len(media)
    /\ post_file' = content
    /\ post_saved' = TRUE
    /\ job' = "returned"
    /\ UNCHANGED <<xvars, cvars, pvars, mvars, rvars, ivars, media, sopt, spos, content, wgerrors,
                   media_files, swpc>>

\* handler(): finally: task_done(), then the loop or the end of the thread
SaveTaskDone ==
    /\ swpc = "work"
    /\ job \in {"returned", "raised"}
    /\ swpc' = AfterFinally(job = "raised")
    /\ UNCHANGED <<xvars, cvars, pvars, mvars, rvars, ivars, media, sopt, spos, content, wgerrors,
                   media_files, post_file, post_saved, job>>

NextSave ==
    \/ StartSave
    \/ HandleMedia
    \/ SavePost
    \/ SaveTaskDone

\* ------------------------------------------------------------------------
\* TumblrBackup.backup._backup: the tests of one post, over one page
\* ------------------------------------------------------------------------
\* a page has at most this many posts
MaxPagePosts == 2

\* p['trail']: no such field, an empty list, a list whose last item has the
\* is_current_item field, a list whose last item has not
Trails == {"absent", "empty", "current", "not_current"}

\* what the tests see of a post: its identity is above ident_max; its date
\* is after p_stop, inside the period or before p_start; its type and tags
\* are among the requested ones; it has a reblogged_from_name or a
\* reblogged_root_name field; its trail; the jq filter yields a true value;
\* its post file exists
PostAttrs ==
    [above_mark : BOOLEAN, date : {"after", "in", "before"}, requested : BOOLEAN,
     from : BOOLEAN, trail : Trails, matches : BOOLEAN, exists : BOOLEAN]

\* options.count: 0 (no limit), one post, two posts
Counts == {0, 1, 2}

FilterOptions ==
    [incremental : BOOLEAN, period : BOOLEAN, dashboard_only_blog : BOOLEAN,
     request : BOOLEAN, no_reblog : BOOLEAN, only_reblog : BOOLEAN, filter : BOOLEAN,
     no_post_clobber : BOOLEAN, count : Counts]

\* what no test reads of a post under options o is left at one value
ReadByTests(o, p) ==
    /\ ~o.incremental => p.above_mark
    /\ ~o.period => p.date = "in"
    /\ ~o.request => p.requested
    /\ ~(o.no_reblog \/ o.only_reblog) => (~p.from /\ p.trail = "absent")
    /\ ~o.filter => p.matches
    /\ ~o.no_post_clobber => ~p.exists

\* a classification that does not look at the reblog source fields
post_is_reblog_TrailOnly(p) == p.trail = "not_current"

\* _backup: post_is_reblog
post_is_reblog(p) ==
    IF p.from
    THEN IF p.trail = "empty" THEN TRUE
         ELSE IF p.trail # "absent" /\ p.trail # "current" THEN TRUE
         ELSE FALSE
    ELSE p.trail \notin {"absent", "empty"} /\ p.trail # "current"

\* the tests of one iteration with the content filter before the reblog
\* test
Outcome_FilterBeforeReblog(o, p) ==
    IF o.incremental /\ ~p.above_mark THEN "stop_incremental"
    ELSE IF o.period /\ p.date = "after"
         THEN IF o.dashboard_only_blog THEN "skip_newer" ELSE "raise_newer"
    ELSE IF o.period /\ p.date = "before" THEN "stop_period"
    ELSE IF o.request /\ ~p.requested THEN "skip_request"
    ELSE IF o.filter /\ ~p.matches THEN "skip_filter"
    ELSE IF o.no_reblog /\ post_is_reblog(p) THEN "skip_reblog"
    ELSE IF o.only_reblog /\ ~post_is_reblog(p) THEN "skip_reblog"
    ELSE IF p.exists /\ o.no_post_clobber THEN "skip_clobber"
    ELSE "submit"

\* _backup: the tests of one iteration, in the order of the code
Outcome(o, p) ==
    IF o.incremental /\ ~p.above_mark THEN "stop_incremental"
    ELSE IF o.period /\ p.date = "after"
         THEN IF o.dashboard_only_blog THEN "skip_newer" ELSE "raise_newer"
    ELSE IF o.period /\ p.date = "before" THEN "stop_period"
    ELSE IF o.request /\ ~p.requested THEN "skip_request"
    ELSE IF o.no_reblog /\ post_is_reblog(p) THEN "skip_reblog"
    ELSE IF o.only_reblog /\ ~post_is_reblog(p) THEN "skip_reblog"
    ELSE IF o.filter /\ ~p.matches THEN "skip_filter"
    ELSE IF p.exists /\ o.no_post_clobber THEN "skip_clobber"
    ELSE "submit"

NoAttrs ==
    [above_mark |-> TRUE, date |-> "in", requested |-> TRUE, from |-> FALSE,
     trail |-> "absent", matches |-> TRUE, exists |-> FALSE]

InitPage ==
    /\ fopt \in {o \in FilterOptions : o.dashboard_only_blog => o.period}
    /\ fpost = NoAttrs
    /\ foutcome = "none"
    /\ fcount = 0
    /\ filter_skipped = 0
    /\ fsubmitted = 0
    /\ fpc = "loop"

\* the variables of the page loop where none is modelled
NoPageLoop ==
    /\ fopt = [incremental |-> FALSE, period |-> FALSE, dashboard_only_blog |-> FALSE,
               request |-> FALSE, no_reblog |-> FALSE, only_reblog |-> FALSE,
               filter |-> FALSE, no_post_clobber |-> FALSE, count |-> 0]
    /\ fpost = NoAttrs
    /\ foutcome = "none"
    /\ fcount = 0
    /\ filter_skipped = 0
    /\ fsubmitted = 0
    /\ fpc = "none"

\* _backup: one iteration of the loop over sorted_posts, from the tests to
\* add_work and the count limit
ExaminePost ==
    /\ fpc = "loop"
    /\ fcount < MaxPagePosts
    /\ \E p \in PostAttrs :
          /\ ReadByTests(fopt, p)
          /\ fpost' = p
          /\ foutcome' = Outcome(fopt, p)
    /\ fcount' = fcount + 1
    /\ filter_skipped' = IF foutcome' = "skip_filter" THEN filter_skipped + 1 ELSE filter_skipped
    /\ fsubmitted' = IF foutcome' = "submit" THEN fsubmitted + 1 ELSE fsubmitted
    /\ fpc' = CASE foutcome' \in {"stop_incremental", "stop_period"} -> "stopped"
                [] foutcome' = "raise_newer" -> "raised"
                [] foutcome' = "submit" /\ fopt.count # 0 /\ fsubmitted' >= fopt.count -> "stopped"
                [] OTHER -> "loop"
    /\ UNCHANGED <<qvars, nvars, cvars, pvars, mvars, rvars, ivars, svars, fopt>>

\* _backup: sorted_posts is exhausted: return True, oldest_date
PageEnds ==
    /\ fpc = "loop"
    /\ fpc' = "returned"
    /\ UNCHANGED <<qvars, nvars, cvars, pvars, mvars, rvars, ivars, svars, fopt, fpost, foutcome, fcount,
                   filter_skipped, fsubmitted>>

NextPage ==
    \/ ExaminePost
    \/ PageEnds

\* ------------------------------------------------------------------------
\* disable_note_scraper: apiparse in the controller thread, get_post in
\* the worker threads
\* ------------------------------------------------------------------------
\* a thread reaches the lock at most this many times
MaxRounds == 2

Controller == 0
NoThread == 0 - 1
NoteThreads == {Controller} \cup Workers

\* a lock that every thread may take at any time
LockFree_Never == disablens_lock = disablens_lock

\* threading.Lock: acquire goes through when no thread holds the lock
LockFree == disablens_lock = NoThread

InitNotes ==
    /\ disable_note_scraper = {}
    /\ disablens_lock = NoThread
    /\ npc = [t \in NoteThreads |-> "idle"]
    /\ nrounds = [t \in NoteThreads |-> 0]
    /\ ns_logged = 0
    /\ ns_adds = 0

\* the variables of the threads where none is modelled
NoNotes ==
    /\ disable_note_scraper = {}
    /\ disablens_lock = NoThread
    /\ npc = [t \in NoteThreads |-> "none"]
    /\ nrounds = [t \in NoteThreads |-> 0]
    /\ ns_logged = 0
    /\ ns_adds = 0

\* apiparse: an answer of the svc API (dashboard_only_blog is set)
\* get_post: the account is not in the set (read without the lock), the
\* notes scraper runs and ends with the exit code of safe mode
ReachLock(t) ==
    /\ npc[t] = "idle"
    /\ nrounds[t] < MaxRounds
    /\ t \in Workers => ACCOUNT \notin disable_note_scraper
    /\ npc' = [npc EXCEPT ![t] = "acquire"]
    /\ nrounds' = [nrounds EXCEPT ![t] = @ + 1]
    /\ UNCHANGED <<qvars, fvars, cvars, pvars, mvars, rvars, ivars, svars, disable_note_scraper,
                   disablens_lock, ns_logged, ns_adds>>

\* with disablens_lock: __enter__
Acquire(t) ==
    /\ npc[t] = "acquire"
    /\ LockFree
    /\ disablens_lock' = t
    /\ npc' = [npc EXCEPT ![t] = "test"]
    /\ UNCHANGED <<qvars, fvars, cvars, pvars, mvars, rvars, ivars, svars, disable_note_scraper,
                   nrounds, ns_logged, ns_adds>>

\* if account not in disable_note_scraper
TestMember(t) ==
    /\ npc[t] = "test"
    /\ npc' = [npc EXCEPT ![t] = IF ACCOUNT \notin disable_note_scraper THEN "add" ELSE "release"]
    /\ UNCHANGED <<qvars, fvars, cvars, pvars, mvars, rvars, ivars, svars, disable_note_scraper,
                   disablens_lock, nrounds, ns_logged, ns_adds>>

\* disable_note_scraper.add(account)
AddAccount(t) ==
    /\ npc[t] = "add"
    /\ disable_note_scraper' = disable_note_scraper \cup {ACCOUNT}
    /\ ns_adds' = ns_adds + 1
    /\ npc' = [npc EXCEPT ![t] = "log"]
    /\ UNCHANGED <<qvars, fvars, cvars, pvars, mvars, rvars, ivars, svars, disablens_lock, nrounds,
                   ns_logged>>

\* logger.info('[Note Scraper] ... scraping disabled for ...')
LogDisabled(t) ==
    /\ npc[t] = "log"
    /\ ns_logged' = ns_logged + 1
    /\ npc' = [npc EXCEPT ![t] = "release"]
    /\ UNCHANGED <<qvars, fvars, cvars, pvars, mvars, rvars, ivars, svars, disable_note_scraper,
                   disablens_lock, nrounds, ns_adds>>

\* with disablens_lock: __exit__
Release(t) ==
    /\ npc[t] = "release"
    /\ disablens_lock' = IF disablens_lock = t THEN NoThread ELSE disablens_lock
    /\ npc' = [npc EXCEPT ![t] = "idle"]
    /\ UNCHANGED <<qvars, fvars, cvars, pvars, mvars, rvars, ivars, svars, disable_note_scraper,
                   nrounds, ns_logged, ns_adds>>

NextNotes ==
    \/ \E t \in NoteThreads : ReachLock(t)
    \/ \E t \in NoteThreads : Acquire(t)
    \/ \E t \in NoteThreads : TestMember(t)
    \/ \E t \in NoteThreads : AddAccount(t)
    \/ \E t \in NoteThreads : LogDisabled(t)
    \/ \E t \in NoteThreads : Release(t)

\* ------------------------------------------------------------------------
\* TumblrBackup.backup with --period over a previous archive: the loop of
\* apiparse (replay branch) and _backup
\* ------------------------------------------------------------------------
\* the post snapshots an archive may hold: identities 1..c, any timestamps
ArchivesOfCount(c) == {{[id |-> n, ts |-> d[n]] : n \in 1..c} : d \in [1..c -> Times]}

Archives == UNION {ArchivesOfCount(c) : c \in 0..MaxArchive}

\* _backup over the posts of a page, in the order of sort_key: the posts
\* submitted, the date of the last post read, and how the loop ended
RECURSIVE BackupPage(_, _, _, _)
BackupPage(posts, done, oldest, period) ==
    IF posts = <<>> THEN [submitted |-> done, oldest_date |-> oldest, res |-> "True"]
    ELSE LET p == Head(posts)
         IN  IF period /\ p.ts > p_stop
             THEN [submitted |-> done, oldest_date |-> p.ts, res |-> "RuntimeError"]
             ELSE IF period /\ p.ts < p_start
             THEN [submitted |-> done, oldest_date |-> p.ts, res |-> "False"]
             ELSE BackupPage(Tail(posts), Append(done, p.id), p.ts, period)

\* an offset that advances by one post
NextOffset_ByOne(start) == start + 1

\* i += MAX_POSTS
NextOffset(start) == start + MAX_POSTS

\* the count of add_work calls per post after those of one page
Submit(counts, ids) ==
    [n \in 1..MaxArchive |-> counts[n] + Cardinality({x \in 1..Len(ids) : ids[x] = n})]

InitRun ==
    /\ rmode = "period"
    /\ \E S \in Archives : prev_resps = read_archive(S, FALSE)
    /\ rcall = [count |-> MAX_POSTS, start |-> 0, before |-> p_stop]
    /\ rlive = NoPage
    /\ rreplay = NoPage
    /\ rpc = "call"
    /\ rsubmitted = [n \in 1..MaxArchive |-> 0]
    /\ rend = "none"
    /\ rrequests = <<>>
    /\ rskip = 0

\* the variables of the run where none is modelled
NoRun ==
    /\ rsubmitted = [n \in 1..MaxArchive |-> 0]
    /\ rend = "none"
    /\ rrequests = <<>>
    /\ rskip = 0

\* resp = api_parser.apiparse(MAX_POSTS, i, before), from the archive
RunFetch ==
    /\ rpc = "call"
    /\ rend = "none"
    /\ rreplay' = ReplayResponse(rcall.count, rcall.start, rcall.before)
    /\ rpc' = "answered"
    /\ UNCHANGED <<fvars, nvars, svars, ivars, cvars, pvars, mvars, prev_resps, rmode, rcall,
                   rlive, rsubmitted, rend, rrequests, rskip>>

\* the rest of the iteration: an empty page ends the loop; _backup submits
\* the posts of the page up to a stop or an exception; then the assert on
\* oldest_date, the next 'before' cursor and i += MAX_POSTS
RunBackup ==
    /\ rpc = "answered"
    /\ IF rreplay.posts = <<>>
       THEN /\ rend' = "empty"
            /\ rpc' = "done"
            /\ UNCHANGED <<rcall, rsubmitted>>
       ELSE LET b == BackupPage(rreplay.posts, <<>>, None, TRUE)
            IN  /\ rsubmitted' = Submit(rsubmitted, b.submitted)
                /\ IF b.res = "RuntimeError"
                   THEN rend' = "RuntimeError" /\ rpc' = "done" /\ UNCHANGED rcall
                   ELSE IF b.res = "False"
                   THEN rend' = "period_end" /\ rpc' = "done" /\ UNCHANGED rcall
                   ELSE IF ~(b.oldest_date <= rcall.before)
                   THEN rend' = "AssertionError" /\ rpc' = "done" /\ UNCHANGED rcall
                   ELSE /\ rcall' = [count  |-> MAX_POSTS,
                                     start  |-> NextOffset(rcall.start),
                                     before |-> NextBefore(b.oldest_date, rcall.before)]
                        /\ rpc' = "call"
                        /\ UNCHANGED rend
    /\ UNCHANGED <<fvars, nvars, svars, ivars, cvars, pvars, mvars, prev_resps, rmode, rlive,
                   rreplay, rrequests, rskip>>

NextRun ==
    \/ RunFetch
    \/ RunBackup

\* ------------------------------------------------------------------------
\* TumblrBackup.backup without --period and --likes over a live source
\* whose posts do not change: the loop by offsets
\* ------------------------------------------------------------------------
\* options.skip is at most this
MaxSkip == 2

\* prev_resps stands for the posts of the source, newest first
InitOffset ==
    /\ rmode = "posts"
    /\ \E S \in SUBSET ArchivePosts : prev_resps = read_archive(S, FALSE)
    /\ rskip \in 0..MaxSkip
    /\ rcall = [count |-> MAX_POSTS, start |-> rskip, before |-> None]
    /\ rlive = NoPage
    /\ rreplay = NoPage
    /\ rpc = "call"
    /\ rsubmitted = [n \in 1..MaxArchive |-> 0]
    /\ rend = "none"
    /\ rrequests = <<>>

\* resp = api_parser.apiparse(MAX_POSTS, i, before), answered by the source
OffsetFetch ==
    /\ rpc = "call"
    /\ rrequests' = Append(rrequests, ApiParams(rcall.count, rcall.start, rcall.before))
    /\ rlive' = LiveResponse(rcall.count, rcall.start, rcall.before)
    /\ rpc' = "answered"
    /\ UNCHANGED <<fvars, nvars, svars, ivars, cvars, pvars, mvars, prev_resps, rmode, rcall,
                   rreplay, rsubmitted, rend, rskip>>

\* the rest of the iteration: an empty page ends the loop; _backup submits
\* the posts of the page; i += MAX_POSTS
OffsetBackup ==
    /\ rpc = "answered"
    /\ IF rlive.posts = <<>>
       THEN /\ rend' = "empty"
            /\ rpc' = "done"
            /\ UNCHANGED <<rcall, rsubmitted>>
       ELSE LET b == BackupPage(rlive.posts, <<>>, None, FALSE)
            IN  /\ rsubmitted' = Submit(rsubmitted, b.submitted)
                /\ rcall' = [rcall EXCEPT !.start = NextOffset(rcall.start)]
                /\ rpc' = "call"
                /\ UNCHANGED rend
    /\ UNCHANGED <<fvars, nvars, svars, ivars, cvars, pvars, mvars, prev_resps, rmode, rlive,
                   rreplay, rrequests, rskip>>

NextOffsetRun ==
    \/ OffsetFetch
    \/ OffsetBackup

\* the variables of the specifications below the index rebuild where none
\* of them is modelled
NoExtra == NoSave /\ NoPageLoop /\ NoNotes /\ NoRun

Init == InitBackup /\ NoPool /\ NoMain /\ NoReplay /\ NoIndex /\ NoExtra

Next ==
    \/ ApiThrottled
    \/ ApiRequestError
    \/ ApiFail
    \/ ApiDashboard
    \/ ApiOk
    \/ InfoReturn
    \/ PageReturn
    \/ \E p \in Posts, done \in BOOLEAN : PostStep(p, done)
    \/ AddWorkFull
    \/ AddWorkOk
    \/ PageDone
    \/ WaitPool
    \/ BuildIndex

Spec == Init /\ [][Next]_vars

InitPoolSpec == NoBackup /\ InitPool /\ NoMain /\ NoReplay /\ NoIndex /\ NoExtra

SpecPool == InitPoolSpec /\ [][NextPool]_vars

\* the threads are scheduled fairly: a thread that can take its next step
\* takes it. The controller goes on in add_work, in the loop of wait() and
\* in cancel(); when it calls wait() or cancel(), and whether it is
\* interrupted, is not a matter of scheduling
PoolFairness ==
    /\ \A w \in Workers :
          /\ WF_vars(LoopTest(w))
          /\ WF_vars(GetWork(w))
          /\ WF_vars(RunWork(w))
          /\ WF_vars(TaskDone(w))
    /\ WF_vars(AddWork)
    /\ WF_vars(WaitReturn)
    /\ WF_vars(CancelJoined)

SpecPoolFair == SpecPool /\ PoolFairness

InitMainSpec == NoBackup /\ NoPool /\ InitMain /\ NoReplay /\ NoIndex /\ NoExtra

SpecMain == InitMainSpec /\ [][NextMain]_vars

InitReplaySpec == NoBackup /\ NoPool /\ NoMain /\ InitReplay /\ NoIndex /\ NoExtra

SpecReplay == InitReplaySpec /\ [][NextReplay]_vars

InitIndexSpec == NoBackup /\ NoPool /\ NoMain /\ NoReplay /\ InitIndex /\ NoExtra

SpecIndex == InitIndexSpec /\ [][NextIndex]_vars

InitSaveSpec == NoBackup /\ NoPool /\ NoMain /\ NoReplay /\ NoIndex /\ InitSave /\ NoPageLoop /\ NoNotes /\ NoRun

SpecSave == InitSaveSpec /\ [][NextSave]_vars

InitPageSpec == NoBackup /\ NoPool /\ NoMain /\ NoReplay /\ NoIndex /\ NoSave /\ InitPage /\ NoNotes /\ NoRun

SpecPage == InitPageSpec /\ [][NextPage]_vars

InitNotesSpec ==
    NoBackup /\ NoPool /\ NoMain /\ NoReplay /\ NoIndex /\ NoSave /\ NoPageLoop /\ InitNotes /\ NoRun

SpecNotes == InitNotesSpec /\ [][NextNotes]_vars

InitRunSpec ==
    /\ NoBackup /\ NoPool /\ NoMain /\ NoIndex /\ NoSave /\ NoPageLoop /\ NoNotes
    /\ InitRun

SpecRun == InitRunSpec /\ [][NextRun]_vars

InitOffsetSpec ==
    /\ NoBackup /\ NoPool /\ NoMain /\ NoIndex /\ NoSave /\ NoPageLoop /\ NoNotes
    /\ InitOffset

SpecOffset == InitOffsetSpec /\ [][NextOffsetRun]_vars

\* ------------------------------------------------------------------------
\* Properties of one account run (Spec)
\* ------------------------------------------------------------------------
\* C1: within one account run no post identity is passed to
\* ThreadPool.add_work more than once, whatever pages the source returns
C1_AtMostOnce == ~addedTwice

\* the pagination loop goes from one page to the fetch of the next
NextIteration == pc = "post" /\ pc' = "api"

\* C2: on every iteration of the pagination loop the offset i grows by
\* MAX_POSTS, and in 'before' mode the new before is strictly smaller than
\* the previous one: the oldest date of the page, or one less when the
\* oldest date equals the previous before
C2_CursorAdvances ==
    [][NextIteration =>
          /\ i' = i + MAX_POSTS
          /\ <<i', before'>> # <<i, before>>
          /\ BeforeMode =>
                /\ before' < before
                /\ before' = (IF oldest_date = before THEN before - 1 ELSE oldest_date)]_vars

\* a second iteration in 'before' mode was reached through the tie-break
C2_Witness ==
    /\ pc = "api"
    /\ opt.period
    /\ i = opt.skip + MAX_POSTS
    /\ oldest_date = p_stop
    /\ before = p_stop - 1

\* C3: in incremental mode with recorded maximum ident_max, only posts
\* with a key above ident_max are submitted; the first post of a page with
\* a key at or below ident_max stops the loop at that page, and from then on
\* nothing is fetched or submitted and the account is not marked failed
C3_IncrementalStops ==
    [][/\ post_count' # post_count =>
             (ident_max = None \/ sort_key(post) > ident_max)
       /\ (k' = k + 1 /\ ident_max # None /\ sort_key(post') <= ident_max) =>
             (stop' = "incremental" /\ pc' = "wait" /\ failed_blogs' = failed_blogs)
       /\ stop = "incremental" =>
             /\ pc' \in {"wait", "index", "returned"}
             /\ UNCHANGED <<requests, added, post_count, failed_blogs, i, before>>]_vars

\* a run stopped by the incremental test on a page of which an earlier post
\* was submitted
C3_Witness ==
    /\ stop = "incremental"
    /\ pc = "returned"
    /\ npages = 1
    /\ k >= 2
    /\ post_count >= 1
    /\ failed_blogs = <<>>

\* 2 to the power n
RECURSIVE Pow2(_)
Pow2(n) == IF n = 0 THEN 1 ELSE 2 * Pow2(n - 1)

\* the apiparse call of the pagination loop has returned
Returned == pc \in {"info_ret", "loop_ret"}

\* C10: while the API answers 429, apiparse sends the identical request
\* again, after sleeping 30 seconds the first time and twice the previous
\* duration each following time, one request per sleep; it returns only on
\* another answer, and the cursor of the controller is not changed
C10_Backoff ==
    /\ \A n \in 1..Len(sleeps) : sleeps[n] = 30 * Pow2(n - 1)
    /\ \A n \in 1..Len(requests) : requests[n].params = RequestParams
    /\ \A n \in 1..Len(sleeps) : requests[n].status = "429"
    /\ Len(requests) = Len(sleeps) + (IF Returned THEN 1 ELSE 0)
    /\ Returned => requests[Len(requests)].status # "429"
    /\ (pc = "api" \/ Returned) /\ apiArgs.ctx = "loop_ret" =>
          /\ apiArgs.start = i
          /\ apiArgs.before \in {before, None}

\* the fetch of a later page has been throttled for the longest time
C10_Witness ==
    /\ pc = "api"
    /\ apiArgs.ctx = "loop_ret"
    /\ Len(sleeps) = MaxThrottle
    /\ Len(requests) = MaxThrottle
    /\ i > opt.skip

\* ------------------------------------------------------------------------
\* Properties of the ThreadPool (SpecPool)
\* ------------------------------------------------------------------------
\* a call of add_work by the controller
AddWorkCall == AddWork \/ AddWorkRaisesFull

\* C4: the number of pending jobs (accepted and not yet dequeued) never
\* exceeds max_queue, and an add_work on a full queue adds nothing and
\* raises queue.Full
C4_QueueBounded ==
    /\ [](Len(queue) <= max_queue)
    /\ [][(AddWorkCall /\ Len(queue) >= max_queue) =>
             /\ queue' = queue
             /\ unfinished_tasks' = unfinished_tasks
             /\ nextJob' = nextJob
             /\ lastAdd' = "full"]_vars

\* add_work has raised queue.Full on a queue holding max_queue jobs
C4_Witness ==
    /\ lastAdd = "full"
    /\ Len(queue) = max_queue
    /\ nextJob = max_queue + 1

\* the jobs waiting in the queue
Queued == {queue[n] : n \in 1..Len(queue)}

\* C5: when wait() has returned, task_done has been called for every job
\* accepted by add_work: none is still queued or still executing
C5_WaitReturnsWhenAllDone ==
    ctl = "waited" =>
        /\ \A j \in Accepted : completed[j] >= 1
        /\ Queued = {}
        /\ Executing = {}

\* wait() has returned after every job the controller had was accepted
C5_Witness ==
    /\ ctl = "waited"
    /\ Accepted = Jobs
    /\ \A j \in Jobs : executed[j] = 1

\* C6: no job that was in the queue when cancel() was called is ever
\* executed
C6_NoQueuedJobRunsAfterCancel == \A j \in atCancel : executed[j] = 0

\* C7: when the body of a job has raised, its task_done is still called,
\* the worker goes back to the loop of handler() to take later jobs, and the
\* other workers are where they were
C7_FailureStaysInJob ==
    [][\A w \in Workers :
          (wpc[w] = "finally" /\ raised[w] /\ wpc'[w] # "finally") =>
              /\ completed'[work[w]] = completed[work[w]] + 1
              /\ wpc'[w] = "loop"
              /\ \A v \in Workers \ {w} : wpc'[v] = wpc[v]]_vars

\* C8: the body of a job is executed at most once and task_done is called
\* at most once for it; when every worker thread has ended in a run that was
\* not cancelled, task_done has been called exactly once for every accepted
\* job
C8_ExactlyOnce ==
    /\ \A j \in Jobs : executed[j] <= 1 /\ completed[j] <= 1
    /\ (~abort /\ \A w \in Workers : Terminated(w)) =>
           \A j \in Accepted : completed[j] = 1

\* ------------------------------------------------------------------------
\* Properties of the main loop (SpecMain)
\* ------------------------------------------------------------------------
\* the accounts recorded as failed
FailedAccounts == {failed_blogs[n] : n \in 1..Len(failed_blogs)}

\* C9: a fatal error in the backup of one account does not prevent the
\* backup of the accounts after it: unless the run is interrupted, the
\* process ends with backup() called for every account, and an account
\* with a fatal error is in failed_blogs and makes the exit status nonzero
C9_FailuresIsolated ==
    (exitStatus # None /\ exc # "KeyboardInterrupt") =>
        /\ backedUp = Accounts
        /\ exc \in FatalErrors => (FailedAccounts # {} /\ exitStatus = EXIT_ERRORS)

\* ------------------------------------------------------------------------
\* Properties of one account run (Spec): the post source
\* ------------------------------------------------------------------------
\* the status of the last answer of the current apiparse call
LastStatus == IF requests = <<>> THEN "none" ELSE requests[Len(requests)].status

\* the request that apiparse sends to the svc API when it calls itself
SvcRequest ==
    [base |-> "svc", limit |-> apiArgs.count, before |-> None,
     offset |-> IF apiArgs.start > 0 THEN apiArgs.start ELSE None]

\* C11: the endpoint choice dashboard_only_blog leaves its undecided value
\* at most once and never changes afterwards; it becomes the dashboard
\* endpoint only on the answer 404 with the single error code 4012 while
\* undecided, and the request is then sent again, once, to the svc API
C11_EndpointChosenOnce ==
    [][/\ dashboard_only_blog # "None" => dashboard_only_blog' = dashboard_only_blog
       /\ dashboard_only_blog' # dashboard_only_blog =>
             \/ /\ dashboard_only_blog' = "True"
                /\ apiArgs.cause = "none"
                /\ apiArgs'.cause = "404_4012"
                /\ pc' = "api"
                /\ requests' = <<>>
                /\ RequestParams' = SvcRequest
             \/ /\ dashboard_only_blog' = "False"
                /\ LastStatus' = "200"
       /\ apiArgs'.cause # apiArgs.cause =>
             (apiArgs.cause = "none" \/ apiArgs'.cause = "none")]_vars

\* on the dashboard endpoint a later answer 404 with code 4012 is a failed
\* fetch, not another switch
C11_Witness ==
    /\ dashboard_only_blog = "True"
    /\ pc = "loop_ret"
    /\ LastStatus = "404_4012"
    /\ npages >= 1

\* this step receives one of the answers that are neither 200 nor 429
TerminalAnswer ==
    /\ pc = "api"
    /\ \/ requests' # requests /\ LastStatus' \in TerminalStatuses
       \/ apiArgs'.cause # apiArgs.cause /\ apiArgs'.cause \in TerminalStatuses

\* what a terminal error does: apiparse returns None after that one answer,
\* and the controller marks the account failed and fetches nothing more
FetchFailureEndsAccount ==
    /\ (pc = "api" /\ requests' # requests /\ LastStatus' \in TerminalStatuses) =>
          /\ pc' = apiArgs.ctx
          /\ ~resp'.ok
          /\ Len(requests') = 1
    /\ (Returned /\ ~resp.ok) =>
          /\ failed_blogs' = Append(failed_blogs, ACCOUNT)
          /\ pc' \in {"wait", "returned"}
    /\ (stop = "failure" \/ (pc = "returned" /\ failed_blogs # <<>>)) =>
          /\ pc' \in {"wait", "index", "returned"}
          /\ requests' = <<>>

ConnectivityLost(e) == e.http /\ ~e.dns

\* C13: a request that fails because connectivity is lost is never a fetch
\* failure: the no-internet signal is raised and apiparse stays in its call
\* with the same request; apiparse returns None on an exception only when
\* the last exception was not a loss of connectivity
C13_ConnectivityRetry ==
    [][/\ \A n \in 1..Len(net') :
             ConnectivityLost(net'[n]) =>
                 (net'[n].signalled /\ net'[n].params = RequestParams')
       /\ (Len(net') > Len(net) /\ ConnectivityLost(net'[Len(net')])) =>
             (pc' = "api" /\ UNCHANGED <<apiArgs, requests, resp, failed_blogs, cursor>>)
       /\ LastStatus' = "exception" =>
             (net' # <<>> /\ ~ConnectivityLost(net'[Len(net')]))]_vars

\* the fetch of a later page has been sent again on lost connectivity
C13_Witness ==
    /\ pc = "api"
    /\ apiArgs.ctx = "loop_ret"
    /\ i > opt.skip
    /\ Len(net) = MaxOffline
    /\ \A n \in 1..Len(net) : ConnectivityLost(net[n])

\* an exception has left backup() and is with its caller
Escaped == pc = "raised"

\* C14: whenever an exception has escaped the fetch/filter/dispatch loop of
\* backup(), the pool of the run has been cancelled (cancel() was called and
\* has returned) before; and an exception is recorded only for such a run
C14_CancelBeforeRaise ==
    /\ Escaped => (poolState = "cancelled" /\ exc \in {"RuntimeError", "AssertionError"})
    /\ exc # "none" => Escaped
    /\ poolState = "cancelled" => Escaped

\* an exception escaped after a job had been submitted to the pool
C14_Witness ==
    /\ Escaped
    /\ exc = "RuntimeError"
    /\ post_count > 0
    /\ poolState = "cancelled"

\* the loop of _backup reads the next post of the page
Examined == pc = "post" /\ k' = k + 1

\* what the period tests do with the post just read
PeriodOutcome ==
    /\ (post'.ts > p_stop /\ dashboard_only_blog # "True")
            => (pc' = "raised" /\ exc' = "RuntimeError" /\ poolState' = "cancelled")
    /\ (post'.ts > p_stop /\ dashboard_only_blog = "True")
            => (pc' = "post" /\ exc' = "none" /\ stop' = "none" /\ added' = added
                /\ post_count' = post_count)
    /\ post'.ts < p_start
            => (pc' = "wait" /\ exc' = "none" /\ stop' \in {"period", "incremental"}
                /\ added' = added /\ post_count' = post_count)

\* C15 as stated: with a period, every post read that is newer than p_stop
\* raises RuntimeError (not dashboard-only) or is skipped (dashboard-only),
\* and every post read that is older than p_start stops the run without error
C15_PeriodBounds == [][(Examined /\ opt.period) => PeriodOutcome]_vars

\* C15, amended: the same for every post read that the incremental test,
\* which comes first, does not stop at; and the stop below p_start is the
\* period stop
C15_PeriodBoundsAfterIncremental ==
    [][(Examined /\ opt.period /\ ~IncrementalStop(post'))
         => (PeriodOutcome /\ (post'.ts < p_start => stop' = "period"))]_vars

\* a post newer than p_stop, read after another post had been submitted,
\* has raised the fatal error
C15_Witness ==
    /\ opt.period
    /\ pc = "raised"
    /\ post.ts > p_stop
    /\ dashboard_only_blog = "False"
    /\ added # {}

\* C16 as stated: in 'before' mode the next before cursor is the smallest
\* date among the posts of the page just processed, or one less when that
\* date equals the previous before cursor
C16_NextBeforeIsPageMinimum ==
    [][(NextIteration /\ BeforeMode)
         => before' = (IF min_date = before THEN min_date - 1 ELSE min_date)]_vars

\* the pagination loop of the run was entered and has been left
LoopEnded == poolState # "none" /\ pc \in {"wait", "index", "returned", "raised"}

\* the reasons for which the loop breaks or _backup returns False
StopReasons == {"empty", "incremental", "period", "count", "likes_end", "failure"}

\* C17 as stated, its finite part: the loop is left only for an empty page,
\* the incremental threshold, the period lower bound, the count limit, the
\* end of likes or a terminal fetch failure, and on a fetch failure the
\* account is in failed_blogs
C17_StopsOnlyForListedReasons ==
    LoopEnded =>
        /\ stop \in StopReasons
        /\ exc = "none"
        /\ stop = "failure" => (failed_blogs # <<>> /\ failed_blogs[Len(failed_blogs)] = ACCOUNT)

\* the run has a positive post-count limit
Limited == opt.count # None /\ opt.count > 0

\* C18: with a positive limit the number of posts submitted never exceeds
\* it; the submission that reaches it ends the loop at once, and after that
\* only the wait and the postprocessing follow: no further post of the page
\* is read or submitted and no page is fetched
C18_CountLimit ==
    [][Limited =>
          /\ post_count' <= opt.count
          /\ Cardinality(added') <= opt.count
          /\ (post_count' # post_count /\ post_count' = opt.count)
                => (stop' = "count" /\ pc' = "wait")
          /\ stop = "count"
                => (pc' \in {"index", "returned"} /\ k' = k /\ post_count' = post_count
                    /\ added' = added /\ requests' = requests)]_vars

\* the limit of two posts was reached on the first post of the second page,
\* and the run ended with the rest of that page unread
C18_Witness ==
    /\ opt.count = 2
    /\ post_count = 2
    /\ stop = "count"
    /\ pc = "returned"
    /\ npages = 2
    /\ k = 1
    /\ resp.n = 2

\* build_index / save_index of the account are running or about to start
Indexing == pc = "index"

\* C20: the index of an account is built only after wait() on the pool of
\* the run has returned, in a run that left its loop without an exception;
\* wait() is the step right before, and the pool is neither running nor
\* cancelled while the index is built
C20_IndexAfterDrain ==
    [][/\ Indexing' => (poolState' = "waited" /\ exc' = "none" /\ BuildsIndex')
       /\ (~Indexing /\ Indexing') => (pc = "wait" /\ poolState = "running")
       /\ Indexing => (poolState' = "waited" /\ pc' = "returned" /\ files' = files)]_vars

\* the index is being built after a run that submitted posts over two pages
C20_Witness ==
    /\ Indexing
    /\ poolState = "waited"
    /\ npages = 2
    /\ post_count >= 2
    /\ files # {}

\* ------------------------------------------------------------------------
\* Properties of the replay (SpecReplay)
\* ------------------------------------------------------------------------
\* C19 as stated: for the same posts and the same arguments, apiparse in
\* replay mode answers the same sequence of posts under the same key as the
\* live source, and so an empty page exactly when the live source is
\* exhausted
C19_ReplayEqualsLive ==
    rpc = "answered" =>
        /\ rreplay.posts = rlive.posts
        /\ rreplay.posts_key = rlive.posts_key
        /\ (rreplay.posts = <<>>) <=> (rlive.posts = <<>>)

\* ------------------------------------------------------------------------
\* Properties of the postprocessing (Spec)
\* ------------------------------------------------------------------------
\* the run has drained its pool and backup() has returned
Drained == pc = "returned" /\ poolState = "waited"

\* C21 as stated: whenever a run has finished draining, the index has been
\* rebuilt over every post file present, those of earlier runs included,
\* also when the run submitted no post
C21_IndexRebuiltAfterEveryDrain == Drained => indexed = files

\* ------------------------------------------------------------------------
\* Properties of the index (SpecIndex)
\* ------------------------------------------------------------------------
\* the pages written for month m
PagesOf(m) == {pg \in out.pages : pg.month = m}

\* the number of the last page written for month m
LastPage(m) == Max({pg.page : pg \in PagesOf(m)})

\* month a follows month b in the configured order of the months
Follows(a, b) == IF iopt.reverse_month THEN a < b ELSE a > b

\* the months that follow, and that precede, month m
Later(m) == {a \in IndexMonths(globbed) : Follows(a, m)}
Earlier(m) == {a \in IndexMonths(globbed) : Follows(m, a)}

\* the nearest of them
NearestLater(m) == CHOOSE a \in Later(m) : \A b \in Later(m) : b = a \/ Follows(b, a)
NearestEarlier(m) == CHOOSE a \in Earlier(m) : \A b \in Earlier(m) : b = a \/ Follows(a, b)

\* ceil(n / s)
Ceil(n, s) == (n + s - 1) \div s

\* C22: with page size s >= 1 a month of n posts yields exactly ceil(n/s)
\* pages numbered from 1; the previous link of a page k > 1 is page k-1 of
\* the month, the next link of a page k below the last is page k+1 of the
\* month, and the next link of the last page is empty unless a month follows
C22_PagesOfMonth ==
    (builds >= 1 /\ iopt.posts_per_page >= 1) =>
        \A m \in IndexMonths(globbed) :
            LET n == Len(Bucket(globbed, m))
                last == Ceil(n, iopt.posts_per_page)
            IN  /\ {pg.page : pg \in PagesOf(m)} = 1..last
                /\ Cardinality(PagesOf(m)) = last
                /\ \A pg \in PagesOf(m) :
                      /\ pg.page > 1 => pg.pp = [month |-> m, page |-> pg.page - 1]
                      /\ pg.page < last => pg.np = [month |-> m, page |-> pg.page + 1]
                      /\ pg.page = last => (pg.np = NoLink <=> Later(m) = {})

\* a month of three posts was written as two pages of at most two posts
C22_Witness ==
    /\ builds >= 1
    /\ iopt.posts_per_page = 2
    /\ \E m \in IndexMonths(globbed) :
          /\ Len(Bucket(globbed, m)) = 3
          /\ LastPage(m) = 2

\* C23 as stated: the previous link of a month's first page is the last page
\* of the nearest month before it, the next link of a month's last page is
\* the first page of the nearest month after it, and each is empty when
\* there is no such month; for every page size and ordering
C23_LinksBetweenMonths ==
    builds >= 1 =>
        \A pg \in out.pages :
            /\ pg.page = 1 =>
                  pg.pp = (IF Earlier(pg.month) = {} THEN NoLink
                           ELSE [month |-> NearestEarlier(pg.month),
                                 page  |-> LastPage(NearestEarlier(pg.month))])
            /\ pg.page = LastPage(pg.month) =>
                  pg.np = (IF Later(pg.month) = {} THEN NoLink
                           ELSE [month |-> NearestLater(pg.month), page |-> 1])

\* the posts on a page, as a set
OnPage(pg) == {pg.posts[n] : n \in 1..Len(pg.posts)}

\* C24: the pages of a month partition its posts: every post of the bucket
\* is on exactly one page, once; every page but the last holds exactly
\* page-size posts, the last between 1 and page-size; with page size 0 the
\* month has one page with all its posts
C24_PagesPartitionMonth ==
    builds >= 1 =>
        \A m \in IndexMonths(globbed) :
            LET bucket == Bucket(globbed, m)
                s == iopt.posts_per_page
            IN  /\ \A n \in 1..Len(bucket) :
                      Cardinality({pg \in PagesOf(m) : bucket[n] \in OnPage(pg)}) = 1
                /\ \A pg \in PagesOf(m) :
                      /\ OnPage(pg) \subseteq {bucket[n] : n \in 1..Len(bucket)}
                      /\ Cardinality(OnPage(pg)) = Len(pg.posts)
                      /\ s >= 1 =>
                            IF pg.page < LastPage(m) THEN Len(pg.posts) = s
                            ELSE 1 <= Len(pg.posts) /\ Len(pg.posts) <= s
                      /\ s = 0 => (pg.page = 1 /\ Len(pg.posts) = Len(bucket))

\* three posts of one month were written as a full page and a last page
\* with one post
C24_Witness ==
    /\ builds >= 1
    /\ iopt.posts_per_page = 2
    /\ \E pg \in out.pages : pg.page = 2 /\ Len(pg.posts) = 1
    /\ \E pg \in out.pages : pg.page = 1 /\ Len(pg.posts) = 2

\* C25 as stated: two consecutive rebuilds over the same post files, in the
\* same enumeration and with the same options, write the same files with
\* the same content, the top-level index included
C25_RebuildIdempotent == (builds = 2 /\ ~rescanned) => out = lastOut

\* C26 as stated: two rebuilds over the same post files that differ only in
\* the order in which the directory scan enumerates the files write the
\* same pages, with the same posts in the same order and the same links, and
\* the same listing of months
C26_IndependentOfEnumeration ==
    (builds = 2 /\ rescanned) =>
        /\ out.pages = lastOut.pages
        /\ out.index.listing = lastOut.index.listing

\* a sequence of numbers does not ascend anywhere
Descending(seq) == \A a, b \in 1..Len(seq) : a < b => seq[a] >= seq[b]

\* under the options o, the posts of every month are written newest first
PostsNewestFirst(e, o) ==
    \A m \in IndexMonths(e) :
        LET posts == SortedByDate(Bucket(e, m), o.reverse_month)
        IN  Descending([n \in 1..Len(posts) |-> posts[n].date])

\* under the options o, the next links lead from newer months to older ones
MonthsNewestFirst(e, o) == Descending(archives(e, o))

\* the post files tell the orders apart: two months, and two dates in a month
TellsOrdersApart(e) ==
    /\ Cardinality(IndexMonths(e)) >= 2
    /\ \E a, b \in 1..Len(e) : MonthOf(e[a].date) = MonthOf(e[b].date) /\ e[a].date # e[b].date

\* C27 as stated: the order of the posts within a month and the order of
\* the months through the links can be set independently: each of the four
\* combinations is the result of some setting of the options
C27_OrdersIndependent ==
    (builds >= 1 /\ TellsOrdersApart(globbed)) =>
        \A posts_desc, months_desc \in BOOLEAN :
            \E o \in IndexOptions :
                /\ PostsNewestFirst(globbed, o) = posts_desc
                /\ MonthsNewestFirst(globbed, o) = months_desc

\* C28: the exit status of the process is 3 when a KeyboardInterrupt reaches
\* the main loop; otherwise 4 exactly when failed_blogs is not empty;
\* otherwise 1 exactly when no post was submitted over all accounts;
\* otherwise 0
C28_ExitStatus ==
    mainPc \in {"exited", "died"} =>
        exitStatus = IF exc = "KeyboardInterrupt" THEN EXIT_INTERRUPT
                     ELSE IF failed_blogs # <<>> THEN EXIT_ERRORS
                     ELSE IF total_count = 0 THEN EXIT_NOPOSTS
                     ELSE EXIT_SUCCESS

\* the KeyboardInterrupt has left backup(): out of the except clause after
\* cancel(), or out of wait()
InterruptLeftBackup == ctl \in {"cancelled", "interrupted"}

\* C29: a KeyboardInterrupt at any point of an account run, while fetching,
\* dispatching or draining, cancels the work queue before the process ends
\* with the interrupted status: when the exception reaches __main__ the
\* abort flag is set, no job is queued and every thread has been joined
C29_InterruptCancelsQueue ==
    InterruptLeftBackup =>
        /\ abort
        /\ queue = <<>>
        /\ \A w \in Workers : Terminated(w)

\* C30: when the retrieval of a media element raised WGError in a save job,
\* the job returns and has written the post file, the post file links the
\* element by the URL the post came with, and the thread that ran the job
\* is back in its loop
C30_MediaFailureDegrades ==
    (wgerrors # {} /\ swpc # "work") =>
        /\ job = "returned"
        /\ post_saved
        /\ \A n \in wgerrors : post_file[n] = Remote(n)
        /\ swpc = "loop"

\* a job with a photo whose retrieval raised WGError has ended
C30_Witness ==
    /\ \E n \in wgerrors : media[n] = "photo"
    /\ post_saved
    /\ swpc = "loop"

\* the tests of _backup, each by itself
PassesIncremental(o, p) == ~o.incremental \/ p.above_mark
PassesPeriod(o, p) == ~o.period \/ p.date = "in"
PassesRequest(o, p) == ~o.request \/ p.requested
PassesReblog(o, p) ==
    /\ ~(o.no_reblog /\ post_is_reblog(p))
    /\ ~(o.only_reblog /\ ~post_is_reblog(p))
PassesFilter(o, p) == ~o.filter \/ p.matches
PassesClobber(o, p) == ~(o.no_post_clobber /\ p.exists)

PassesFirstFour(o, p) ==
    PassesIncremental(o, p) /\ PassesPeriod(o, p) /\ PassesRequest(o, p) /\ PassesReblog(o, p)

\* the incremental test or the lower period bound stops the run at p
StopsAt(o, p) ==
    \/ ~PassesIncremental(o, p)
    \/ PassesIncremental(o, p) /\ o.period /\ p.date = "before"

\* C31: a post that _backup examines is submitted exactly when it passes
\* the incremental, period, type/tag, reblog, content-filter and no-clobber
\* tests; filter_skipped is incremented exactly for the posts that pass the
\* first four tests and fail the content filter; a stop outcome of the
\* first two tests ends the loop, and after the loop has ended no post is
\* examined or submitted
C31_TestsInOrder ==
    [][/\ fcount' = fcount + 1 =>
            /\ (fsubmitted' = fsubmitted + 1) <=>
                   (PassesFirstFour(fopt, fpost') /\ PassesFilter(fopt, fpost')
                        /\ PassesClobber(fopt, fpost'))
            /\ fsubmitted' \in {fsubmitted, fsubmitted + 1}
            /\ (filter_skipped' = filter_skipped + 1) <=>
                   (PassesFirstFour(fopt, fpost') /\ ~PassesFilter(fopt, fpost'))
            /\ filter_skipped' \in {filter_skipped, filter_skipped + 1}
            /\ StopsAt(fopt, fpost') => fpc' = "stopped"
       /\ fpc \in {"stopped", "raised", "returned"} =>
            /\ fcount' = fcount
            /\ fsubmitted' = fsubmitted
            /\ filter_skipped' = filter_skipped]_vars

\* a page on which one post failed the content filter after passing a
\* reblog test, and a later post stopped the run
C31_Witness ==
    /\ filter_skipped = 1
    /\ fcount = 2
    /\ fopt.only_reblog
    /\ fpc = "stopped"
    /\ StopsAt(fopt, fpost)

\* the reblog classification of the description
ReblogAsDescribed(p) ==
    \/ p.trail = "not_current"
    \/ p.trail = "empty" /\ p.from

\* C32: a post is classified as a reblog exactly when its trail is not
\* empty and its last item lacks is_current_item, or its trail is there and
\* empty while a reblogged_from_name or reblogged_root_name field is there;
\* with no_reblog no post so classified is submitted, with only_reblog no
\* other post is submitted
C32_ReblogClassification ==
    /\ \A p \in PostAttrs : post_is_reblog(p) <=> ReblogAsDescribed(p)
    /\ (fcount >= 1 /\ foutcome = "submit") =>
          /\ fopt.no_reblog => ~ReblogAsDescribed(fpost)
          /\ fopt.only_reblog => ReblogAsDescribed(fpost)

\* with only_reblog a post with an empty trail and a reblog source field
\* was submitted
C32_Witness ==
    /\ fcount >= 1
    /\ foutcome = "submit"
    /\ fopt.only_reblog
    /\ fpost.trail = "empty"
    /\ fpost.from

\* C33: under every interleaving of the controller and the worker threads,
\* disable_note_scraper changes only in a step of the thread that holds
\* disablens_lock, it only grows, the account is added at most once and the
\* 'scraping disabled' message is logged at most once
C33_DisabledSetUnderLock ==
    [][/\ disable_note_scraper \subseteq disable_note_scraper'
       /\ (ns_adds' # ns_adds \/ disable_note_scraper' # disable_note_scraper) =>
             /\ disablens_lock # NoThread
             /\ npc[disablens_lock] = "add"
             /\ npc'[disablens_lock] = "log"
             /\ \A t \in NoteThreads \ {disablens_lock} : npc'[t] = npc[t]
       /\ ns_adds' <= 1
       /\ ns_logged' <= 1]_vars

\* a worker waits for the lock while another thread, holding it, has added
\* the account and logged the message
C33_Witness ==
    /\ ns_logged = 1
    /\ \E t \in Workers : npc[t] = "acquire"
    /\ \E t \in NoteThreads : disablens_lock = t /\ npc[t] = "release"

\* the source tags with a video among the elements handled so far
InlineVideos == {n \in 1..Len(content) : media[n] \in {"inline_video", "inline_video_ext"}}

\* C34: get_inline_video returns the tag as it was whenever the video could
\* not be downloaded (the download from tumblr failed, the extraction
\* failed or was not enabled), and a rewritten tag only when a local file
\* was saved
C34_InlineVideoFallback ==
    \A n \in InlineVideos : content[n] = Remote(n) <=> n \notin media_files

\* the archive page files of the last rebuild, by month and page number
Generated == {[month |-> pg.month, page |-> pg.page] : pg \in out.pages}

\* C35: after a rebuild, every previous or next link of an archive page
\* that is not empty names an archive page the same rebuild has written,
\* for every page size, 0 included
C35_LinksNameGeneratedPages ==
    builds >= 1 =>
        \A pg \in out.pages :
            /\ pg.pp # NoLink => pg.pp \in Generated
            /\ pg.np # NoLink => pg.np \in Generated

\* the period holds the timestamps from p_start up to, not including,
\* p_stop, the first 'before' cursor
InWindow(ts) == p_start <= ts /\ ts < p_stop

\* the pagination loop has ended without an exception
RunEnded == rend \in {"empty", "period_end"}

\* C36: in a replay run with a period and no other filter, every archived
\* post whose timestamp is inside the period is submitted exactly once
C36_ReplaySubmitsWindow ==
    RunEnded =>
        \A n \in 1..Len(prev_resps) :
            InWindow(prev_resps[n].ts) => rsubmitted[prev_resps[n].id] = 1

\* C40: the assertion oldest_date <= before holds on every iteration of a
\* run in 'before' mode against the replay source, for every archive,
\* also when the identities are ordered otherwise than the timestamps
C40_AssertionHolds == rend # "AssertionError"

\* the number of posts of the source at position skip or after it
AfterSkip == IF Len(prev_resps) > rskip THEN Len(prev_resps) - rskip ELSE 0

\* C37: in offset mode over a source that does not change, the pages are
\* requested at the offsets skip, skip + MAX_POSTS, skip + 2 * MAX_POSTS,
\* ..., the run ends at the first empty page, and it has then submitted
\* every post at position skip or after it exactly once and no other post
C37_OffsetRunSubmitsAll ==
    /\ \A x \in 1..Len(rrequests) :
          LET start == rskip + (x - 1) * MAX_POSTS
          IN  /\ rrequests[x].offset = (IF start > 0 THEN start ELSE None)
              /\ rrequests[x].before = None
              /\ rrequests[x].limit = MAX_POSTS
    /\ rend \in {"none", "empty"}
    /\ rend = "empty" =>
          /\ \A n \in 1..Len(prev_resps) :
                rsubmitted[prev_resps[n].id] = (IF n > rskip THEN 1 ELSE 0)
          /\ Len(rrequests) = (AfterSkip + MAX_POSTS - 1) \div MAX_POSTS + 1

\* a run with skip = 1 over four posts has ended after three requests
C37_Witness ==
    /\ rend = "empty"
    /\ rmode = "posts"
    /\ rskip = 1
    /\ Len(prev_resps) = 4
    /\ Len(rrequests) = 3

\* C38: with job bodies that terminate and fair scheduling of the threads,
\* a submission that found the queue full eventually succeeds (unless the
\* controller leaves the loop by an exception), and wait() eventually
\* returns (unless it is interrupted), whatever number of job bodies raise
C38_SubmitAndWaitTerminate ==
    /\ (ctl = "run" /\ lastAdd = "full") ~> (lastAdd = "ok" \/ ctl # "run")
    /\ (ctl = "waiting") ~> (ctl \in {"waited", "interrupted"})

\* C39: after cancel() has set the abort flag every thread eventually
\* leaves handler() and cancel() returns; no thread passes the test of the
\* loop once the flag is set, so each thread takes at most one more job
\* from the queue; the queue is empty when cancel() has returned
C39_CancelTerminates ==
    /\ (ctl = "joining") ~> (ctl = "cancelled")
    /\ [][abort => \A w \in Workers : wpc'[w] = "get" => wpc[w] = "get"]_vars
    /\ [](ctl = "cancelled" => (queue = <<>> /\ \A w \in Workers : Terminated(w)))

\* cancel() has returned after a thread had run a job that was still
\* queued when the flag was set
C39_Witness ==
    /\ ctl = "cancelled"
    /\ \E j \in atCancel : executed[j] = 1

====
